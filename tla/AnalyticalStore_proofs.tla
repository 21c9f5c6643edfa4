------------------------ MODULE AnalyticalStore_proofs ------------------------
(***************************************************************************)
(* Proofs about the analytical store: how a backup brings it back, what    *)
(* the facts in it say, and that a trailing year read from them is one.    *)
(*                                                                         *)
(* BackupRestore.  A restore swaps the paper directory and                 *)
(* the database many steps after it validated the copy and merged the raw  *)
(* files: CommandInv says what still holds of the copy, of the live state  *)
(* and of the incident at each of those steps.  TornKept says why a file   *)
(* that is being copied is never mistaken for one that some backup knows.  *)
(***************************************************************************)
EXTENDS BackupRestore, IssuerFacts, FiniteSetTheorems, WellFoundedInduction, TLAPS

Kept == backups \cup safeties

\* Before the first swap.
Early == {"safety", "mark", "raw", "copy"}
Steps == Early \cup {"paper", "database", "undo"}

Commands == [pc : Steps, source : Kept, before : Copies, hidden : Papers]

\* The live raw file of fact f is none, or the one of the source of the restore.
Agrees(f) ==
    \/ command.source.raw[f] = "none" \/ raw[f] = "none"
    \/ raw[f] = command.source.raw[f]

\* The one file that is being copied.
Copying(g) ==
    /\ raw[g] = "torn" /\ \A f \in Facts \ {g} : Agrees(f)

CommandInv ==
    command # Idle =>
        /\ Restorable(command.source)
        /\ database = command.before.database
        /\ command.pc = "safety" => raw = command.before.raw
        /\ command.pc \in Early => paper = command.before.paper
        /\ command.pc = "database" => paper = command.source.paper
        /\ command.pc \notin {"safety", "mark"} => stale
        /\ command.pc = "copy" => \E g \in Facts : Copying(g)
        /\ command.pc # "copy" => \A f \in Facts : Agrees(f)
        /\ command.pc \in {"paper", "database"} =>
              \A f \in Facts : command.source.raw[f] # "none" => raw[f] # "none"
        /\ \A f \in Facts : command.source.raw[f] = "none" => raw[f] = command.before.raw[f]

\* A file that some backup has half written was never the work of the restore
\* that runs: it was so already when that restore started, and stays so.
TornKept ==
    \A copy \in Kept, f \in Facts :
        copy.raw[f] = "torn" =>
            /\ raw[f] = "torn"
            /\ command # Idle => command.before.raw[f] = "torn"

IInv == ReplayInv /\ CommandInv /\ TornKept

-----------------------------------------------------------------------------
(* Types of a restore that runs.                                           *)

LEMMA Typed ==
    ASSUME TypeOK
    PROVE  /\ database \in SUBSET Facts /\ paper \in Papers
           /\ raw \in [Facts -> {"none", "torn", "whole"}]
           /\ command = Idle \/ command \in Commands
  BY DEF TypeOK, Live, Copies, Commands, Kept, Steps, Early

LEMMA Running ==
    ASSUME TypeOK, command.pc \in Steps
    PROVE  command # Idle /\ command \in Commands
  BY Typed DEF Idle, Steps, Early

LEMMA InitIInv == Init => IInv
<1> SUFFICES ASSUME Init PROVE IInv
  OBVIOUS
<1>1. Moved \in Copies
  BY DEF Moved, Copies, Papers
<1>2. TypeOK
  <2>1. database \in SUBSET Facts /\ paper \in Papers
        /\ raw \in [Facts -> {"none", "torn", "whole"}]
    BY DEF Init, Papers
  <2>2. backups \subseteq Copies /\ safeties \subseteq Copies
    <3>1. \A copy \in backups \cup safeties : copy = Moved
      BY DEF Init
    <3> QED BY <1>1, <3>1
  <2>3. Live \in Copies
    BY <2>1 DEF Live, Copies
  <2>4. /\ made \in 0 .. MaxBackups /\ restores \in 0 .. MaxRestores
        /\ rollovers \in 0 .. MaxRollovers /\ aborts \in 0 .. MaxAborts
    BY RestoreBounds DEF Init
  <2>5. stale \in BOOLEAN /\ command = Idle
    BY DEF Init
  <2> QED BY <2>2, <2>3, <2>4, <2>5 DEF TypeOK
<1>3. FactsReplayable /\ CommandInv
  BY DEF Init, FactsReplayable, RawValid, Live, CommandInv
<1>4. TornKept
  BY DEF Init, TornKept, Kept, Moved
<1> QED BY <1>2, <1>3, <1>4 DEF IInv, ReplayInv

-----------------------------------------------------------------------------
(* Commands other than a restore.                                          *)

\* No restore runs before the step or after it, and no file that is whole or
\* torn changes.
LEMMA IdleStep ==
    ASSUME IInv, command = Idle, command' = Idle,
           database' \in SUBSET Facts, paper' \in Papers, stale' \in BOOLEAN,
           raw' \in [Facts -> {"none", "torn", "whole"}],
           \A f \in Facts : raw[f] # "none" => raw'[f] = raw[f],
           \A f \in database' : raw'[f] = "whole",
           backups' \in {backups, backups \cup {Live}}, safeties' = safeties,
           made' \in 0 .. MaxBackups, restores' \in 0 .. MaxRestores,
           rollovers' \in 0 .. MaxRollovers, aborts' \in 0 .. MaxAborts
    PROVE  IInv'
<1>1. Live \in Copies
  BY DEF IInv, ReplayInv, TypeOK
<1>2. TypeOK'
  BY <1>1 DEF IInv, ReplayInv, TypeOK, Live, Copies
<1>3. FactsReplayable' /\ CommandInv'
  BY DEF FactsReplayable, RawValid, Live, CommandInv
<1>4. TornKept'
  BY DEF IInv, TornKept, Kept, Live
<1> QED BY <1>2, <1>3, <1>4 DEF IInv, ReplayInv

LEMMA OtherStep ==
    ASSUME IInv,
           \/ \E f \in Facts : Ingest(f)
           \/ Trade \/ BreakRollover \/ RecoverRollover \/ Rescan \/ Backup
    PROVE  IInv'
<1> USE DEF IInv, ReplayInv, TypeOK
<1>1. /\ database \in SUBSET Facts /\ paper \in Papers
      /\ raw \in [Facts -> {"none", "torn", "whole"}]
      /\ \A f \in database : raw[f] = "whole"
  BY Typed DEF FactsReplayable, RawValid, Live
<1>2. ASSUME NEW f \in Facts, Ingest(f) PROVE IInv'
  BY <1>1, <1>2, IdleStep DEF Ingest, Counters
<1>3. CASE Trade \/ RecoverRollover
  <2>1. paper' \in Papers
    BY <1>1, <1>3 DEF Trade, RecoverRollover, Papers, NoPaper
  <2> QED BY <1>1, <1>3, <2>1, IdleStep DEF Trade, RecoverRollover, Counters
<1>4. CASE BreakRollover
  <2>1. paper' \in Papers
    BY <1>1, <1>4 DEF BreakRollover, Papers
  <2>2. rollovers' \in 0 .. MaxRollovers
    BY <1>4, RestoreBounds DEF BreakRollover
  <2> QED BY <1>1, <1>4, <2>1, <2>2, IdleStep DEF BreakRollover
<1>5. CASE Rescan
  BY <1>1, <1>5, IdleStep DEF Rescan, Counters
<1>6. CASE Backup
  <2>1. made' \in 0 .. MaxBackups
    BY <1>6, RestoreBounds DEF Backup
  <2> QED BY <1>1, <1>6, <2>1, IdleStep DEF Backup
<1> QED BY <1>2, <1>3, <1>4, <1>5, <1>6

-----------------------------------------------------------------------------
(* The restore.                                                            *)

LEMMA StartRestoreStep ==
    ASSUME IInv, NEW copy \in Kept, StartRestore(copy) PROVE IInv'
<1> USE DEF IInv, ReplayInv
<1>1. Live \in Copies /\ NoPaper \in Papers
  BY DEF TypeOK, Papers
<1>2. command' = [pc |-> "safety", source |-> copy, before |-> Live, hidden |-> NoPaper]
  BY DEF StartRestore
<1>3. /\ command' \in Commands' /\ command' # Idle
      /\ restores' \in 0 .. MaxRestores
  BY <1>1, <1>2, RestoreBounds
     DEF Commands, Kept, Steps, Early, Idle, StartRestore, Broken, TypeOK
<1>4. TypeOK'
  BY <1>2, <1>3 DEF TypeOK, StartRestore, Commands, Kept, Steps, Early, Live
<1>5. FactsReplayable'
  BY DEF FactsReplayable, RawValid, Live, StartRestore
<1>6. \A f \in Facts : Agrees(f)'
  BY <1>2 DEF StartRestore, Conflicting, Agrees
<1>7. CommandInv'
  BY <1>2, <1>6 DEF CommandInv, StartRestore, Live, Early, Restorable, PaperValid,
                    AttemptsClosed, RawValid
<1>8. TornKept'
  BY <1>2 DEF TornKept, Kept, StartRestore, Live
<1> QED BY <1>4, <1>5, <1>7, <1>8

\* The restore ends, by itself or not.
LEMMA EndStep ==
    ASSUME IInv, command' = Idle, UNCHANGED <<raw, stale, backups, safeties>>,
           database' \in SUBSET Facts, paper' \in Papers,
           \A f \in database' : raw[f] = "whole",
           made' = made, restores' = restores, rollovers' = rollovers,
           aborts' \in 0 .. MaxAborts
    PROVE  IInv'
<1> USE DEF IInv, ReplayInv
<1>1. TypeOK'
  BY Typed DEF TypeOK, Live, Copies
<1>2. FactsReplayable' /\ CommandInv'
  BY DEF FactsReplayable, RawValid, Live, CommandInv
<1>3. TornKept'
  BY DEF TornKept, Kept
<1> QED BY <1>1, <1>2, <1>3

\* The restore goes on, with the same source.
LEMMA GoOn ==
    ASSUME TypeOK, command.pc \in Steps, NEW next \in Steps, NEW hides \in Papers,
           command' = [command EXCEPT !.pc = next, !.hidden = hides],
           next \in {"paper", "database", "undo"} => hides = command.before.paper,
           paper' \in Papers, raw' \in [Facts -> {"none", "torn", "whole"}],
           stale' \in BOOLEAN, safeties \subseteq safeties', safeties' \subseteq Copies,
           aborts' \in 0 .. MaxAborts,
           UNCHANGED <<database, backups, made, restores, rollovers>>
    PROVE  /\ TypeOK' /\ command \in Commands
           /\ command # Idle /\ command' # Idle /\ command'.pc = next
           /\ command'.source = command.source /\ command'.before = command.before
<1>1. command # Idle /\ command \in Commands
  BY Running
<1>2. /\ command' \in Commands' /\ command'.pc = next /\ command'.hidden = hides
      /\ command'.source = command.source /\ command'.before = command.before
  BY <1>1 DEF Commands, Kept
<1>3. command' # Idle
  BY <1>2 DEF Idle, Steps, Early
<1>4. TypeOK'
  BY <1>1, <1>2, Typed DEF TypeOK, Live, Copies, Commands, Steps, Early, Kept
<1> QED BY <1>1, <1>2, <1>3, <1>4

\* A step that leaves the files and their copies alone.
LEMMA GoStep ==
    ASSUME IInv, command.pc \in Steps, NEW next \in Steps \ {"copy"}, NEW hides \in Papers,
           command' = [command EXCEPT !.pc = next, !.hidden = hides],
           next \in {"paper", "database", "undo"} => hides = command.before.paper,
           paper' \in Papers, stale' \in BOOLEAN, aborts' \in 0 .. MaxAborts,
           UNCHANGED <<database, raw, backups, safeties, made, restores, rollovers>>,
           next # "safety",
           command.pc # "copy",
           next \in Early => paper' = command.before.paper,
           next = "database" => paper' = command.source.paper,
           next # "mark" => stale',
           next \in {"paper", "database"} =>
              \A f \in Facts : command.source.raw[f] # "none" => raw[f] # "none"
    PROVE  IInv'
<1> USE DEF IInv, ReplayInv
<1>1. /\ TypeOK' /\ command \in Commands
      /\ command # Idle /\ command' # Idle /\ command'.pc = next
      /\ command'.source = command.source /\ command'.before = command.before
  <2>1. /\ TypeOK /\ safeties' \subseteq Copies /\ safeties \subseteq safeties'
        /\ raw' \in [Facts -> {"none", "torn", "whole"}]
    BY Typed DEF TypeOK
  <2>2. next \in Steps /\ UNCHANGED <<database, backups, made, restores, rollovers>>
    OBVIOUS
  <2> QED BY <2>1, <2>2, GoOn
<1>2. FactsReplayable'
  BY DEF FactsReplayable, RawValid, Live
<1>3. CommandInv'
  BY <1>1 DEF CommandInv, Agrees, Restorable, PaperValid, RawValid, AttemptsClosed
<1>4. TornKept'
  BY <1>1 DEF TornKept, Kept
<1> QED BY <1>1, <1>2, <1>3, <1>4

LEMMA TakeSafetyStep == ASSUME IInv, TakeSafety PROVE IInv'
<1> USE DEF IInv, ReplayInv
<1>1. command.pc = "safety" /\ command.pc \in Steps /\ command' = [command EXCEPT !.pc = "mark"]
  BY DEF TakeSafety, At, Go, Steps, Early
<1>2. command \in Commands /\ command # Idle
  BY <1>1, Running
<1>3. command' = [command EXCEPT !.pc = "mark", !.hidden = command.hidden]
  BY <1>1, <1>2 DEF Commands
<1>4. /\ TypeOK' /\ command \in Commands
      /\ command # Idle /\ command' # Idle /\ command'.pc = "mark"
      /\ command'.source = command.source /\ command'.before = command.before
  <2>1. Live \in Copies /\ safeties' = safeties \cup {Live}
    BY DEF TypeOK, TakeSafety
  <2>2. /\ TypeOK /\ safeties' \subseteq Copies /\ safeties \subseteq safeties'
        /\ raw' \in [Facts -> {"none", "torn", "whole"}] /\ paper' \in Papers
        /\ stale' \in BOOLEAN /\ aborts' \in 0 .. MaxAborts
    BY <2>1, Typed DEF TypeOK, TakeSafety, Counters
  <2>3. /\ UNCHANGED <<database, backups, made, restores, rollovers>>
        /\ "mark" \in Steps /\ command.hidden \in Papers
    BY <1>2 DEF TakeSafety, Counters, Steps, Early, Commands
  <2> QED BY <1>1, <1>3, <2>2, <2>3, GoOn
<1>5. FactsReplayable'
  BY DEF FactsReplayable, RawValid, Live, TakeSafety
<1>6. CommandInv'
  BY <1>1, <1>4 DEF CommandInv, Agrees, Restorable, PaperValid, RawValid, AttemptsClosed,
                    TakeSafety, Early
<1>7. TornKept'
  BY <1>1, <1>4 DEF TornKept, Kept, TakeSafety, CommandInv, Live
<1> QED BY <1>4, <1>5, <1>6, <1>7

\* Whoever runs and hides nothing keeps what is hidden.
LEMMA Stays ==
    ASSUME TypeOK, command.pc \in Steps, NEW next \in Steps, Go(next)
    PROVE  /\ command' = [command EXCEPT !.pc = next, !.hidden = command.hidden]
           /\ command.hidden \in Papers /\ command # Idle /\ command \in Commands
           /\ command.pc \in {"paper", "database", "undo"} =>
                 command.hidden = command.before.paper
<1>1. command # Idle /\ command \in Commands
  BY Running
<1> QED BY <1>1 DEF Go, Commands, TypeOK

\* The steps that copy no file.
LEMMA SwapStep ==
    ASSUME IInv, MarkStale \/ HidePaper \/ InstallPaper \/ SwapDatabase \/ Undo PROVE IInv'
<1> USE DEF IInv, ReplayInv, At, Steps, Early
<1>1. /\ TypeOK /\ paper \in Papers /\ NoPaper \in Papers /\ stale \in BOOLEAN
      /\ aborts \in 0 .. MaxAborts
  BY Typed DEF TypeOK, Papers
<1>2. CASE MarkStale
  <2>1. /\ command' = [command EXCEPT !.pc = "raw", !.hidden = command.hidden]
        /\ command.hidden \in Papers /\ command # Idle
    BY <1>1, <1>2, Stays DEF MarkStale
  <2>2. /\ command.pc = "mark" /\ stale' /\ paper' = paper /\ paper = command.before.paper
        /\ UNCHANGED <<database, raw, backups, safeties, made, restores, rollovers>>
        /\ aborts' = aborts /\ "raw" \in Steps \ {"copy"}
    BY <1>2, <2>1 DEF MarkStale, Counters, CommandInv
  <2>3. paper' \in Papers /\ stale' \in BOOLEAN /\ aborts' \in 0 .. MaxAborts
    BY <1>1, <1>2, <2>2 DEF MarkStale
  <2> QED BY <2>1, <2>2, <2>3, GoStep
<1>3. CASE HidePaper
  BY <1>1, <1>3, Running, GoStep DEF HidePaper, Counters, CommandInv, Additions
<1>4. CASE InstallPaper
  <2>1. command.source.paper \in Papers
    BY <1>4, Running DEF InstallPaper, Commands, Kept, TypeOK, Copies
  <2>2. /\ command' = [command EXCEPT !.pc = "database", !.hidden = command.hidden]
        /\ command.hidden \in Papers /\ command # Idle
        /\ command.hidden = command.before.paper
    BY <1>1, <1>4, Stays DEF InstallPaper
  <2>3. stale /\ \A f \in Facts : command.source.raw[f] # "none" => raw[f] # "none"
    BY <1>4, <2>2 DEF InstallPaper, CommandInv
  <2> QED BY <1>1, <1>4, <2>1, <2>2, <2>3, GoStep DEF InstallPaper, Counters
<1>5. CASE SwapDatabase
  <2>1. command \in Commands /\ command # Idle /\ command.pc = "database"
    BY <1>5, Running DEF SwapDatabase
  <2>2. command.source \in Copies
    BY <2>1 DEF Commands, Kept, TypeOK
  <2>3. \A f \in command.source.database : raw[f] = "whole"
    BY <2>1, <2>2 DEF CommandInv, Agrees, Restorable, RawValid, Copies
  <2> QED BY <1>1, <1>5, <2>2, <2>3, EndStep DEF SwapDatabase, Counters, Copies
<1>6. CASE Undo
  <2>1. command \in Commands
    BY <1>6, Running DEF Undo
  <2> QED BY <1>1, <1>6, <2>1, Typed, EndStep
         DEF Undo, Counters, Commands, FactsReplayable, RawValid, Live
<1> QED BY <1>2, <1>3, <1>4, <1>5, <1>6

\* A missing raw file is published under its name before its content is.
LEMMA StartCopyStep == ASSUME IInv, NEW g \in Facts, StartCopy(g) PROVE IInv'
<1> USE DEF IInv, ReplayInv
<1>1. /\ command.pc = "raw" /\ command.pc \in Steps /\ raw[g] = "none"
      /\ command.source.raw[g] # "none"
      /\ Go("copy") /\ raw' = [raw EXCEPT ![g] = "torn"]
  BY DEF StartCopy, At, Go, Steps, Early, Additions
<1>2. /\ command' = [command EXCEPT !.pc = "copy", !.hidden = command.hidden]
      /\ command.hidden \in Papers
  BY <1>1, Stays DEF Steps, Early
<1>3. raw \in [Facts -> {"none", "torn", "whole"}] /\ raw' \in [Facts -> {"none", "torn", "whole"}]
  BY <1>1, Typed
<1>4. /\ TypeOK' /\ command \in Commands
      /\ command # Idle /\ command' # Idle /\ command'.pc = "copy"
      /\ command'.source = command.source /\ command'.before = command.before
  <2>1. /\ TypeOK /\ paper' \in Papers /\ stale' \in BOOLEAN /\ "copy" \in Steps
        /\ safeties \subseteq safeties' /\ safeties' \subseteq Copies /\ aborts' \in 0 .. MaxAborts
        /\ UNCHANGED <<database, backups, made, restores, rollovers>>
    BY Typed DEF TypeOK, StartCopy, Counters, Steps, Early
  <2> QED BY <1>1, <1>2, <1>3, <2>1, GoOn
<1>5. FactsReplayable'
  BY <1>1, <1>3 DEF FactsReplayable, RawValid, Live, StartCopy
<1>6. Copying(g)'
  BY <1>1, <1>3, <1>4 DEF CommandInv, Copying, Agrees
<1>7. CommandInv'
  BY <1>1, <1>3, <1>4, <1>6 DEF CommandInv, Restorable, PaperValid, RawValid,
                                AttemptsClosed, StartCopy, Early
<1>8. TornKept'
  BY <1>1, <1>3, <1>4 DEF TornKept, Kept, StartCopy
<1> QED BY <1>4, <1>5, <1>7, <1>8

\* The file that is completed is the one that was being copied.
LEMMA FinishCopyStep == ASSUME IInv, NEW f \in Facts, FinishCopy(f) PROVE IInv'
<1> USE DEF IInv, ReplayInv
<1>1. /\ command.pc = "copy" /\ command.pc \in Steps
      /\ raw[f] = "torn" /\ command.before.raw[f] = "none" /\ Go("raw")
      /\ raw' = [raw EXCEPT ![f] = command.source.raw[f]]
  BY DEF FinishCopy, At, Steps, Early
<1>2. /\ command' = [command EXCEPT !.pc = "raw", !.hidden = command.hidden]
      /\ command.hidden \in Papers /\ command # Idle /\ command \in Commands
  BY <1>1, Stays DEF Steps, Early
<1>3. /\ raw \in [Facts -> {"none", "torn", "whole"}]
      /\ raw' \in [Facts -> {"none", "torn", "whole"}] /\ command.source \in Kept
  BY <1>1, <1>2, Typed DEF Commands, Kept, TypeOK, Copies
<1>4. /\ TypeOK' /\ command' # Idle /\ command'.pc = "raw"
      /\ command'.source = command.source /\ command'.before = command.before
  <2>1. /\ TypeOK /\ paper' \in Papers /\ stale' \in BOOLEAN /\ "raw" \in Steps
        /\ safeties \subseteq safeties' /\ safeties' \subseteq Copies /\ aborts' \in 0 .. MaxAborts
        /\ UNCHANGED <<database, backups, made, restores, rollovers>>
    BY Typed DEF TypeOK, FinishCopy, Counters, Steps, Early
  <2> QED BY <1>1, <1>2, <1>3, <2>1, GoOn
<1>5. FactsReplayable'
  BY <1>1, <1>3 DEF FactsReplayable, RawValid, Live, FinishCopy
<1>6. command.source.raw[f] # "none" /\ command.source.raw[f] # "torn"
  BY <1>1, <1>2, <1>3 DEF CommandInv, TornKept
<1>7. \A h \in Facts : Agrees(h)'
  <2>1. PICK g \in Facts : Copying(g)
    BY <1>1, <1>2 DEF CommandInv
  <2>2. f = g
    BY <1>1, <1>6, <2>1 DEF Copying, Agrees
  <2> QED BY <1>1, <1>3, <1>4, <2>1, <2>2 DEF Copying, Agrees
<1>8. CommandInv'
  BY <1>1, <1>2, <1>3, <1>4, <1>6, <1>7 DEF CommandInv, Restorable, PaperValid, RawValid,
                                AttemptsClosed, FinishCopy, Early
<1>9. TornKept'
  BY <1>1, <1>2, <1>3, <1>4 DEF TornKept, Kept, FinishCopy
<1> QED BY <1>4, <1>5, <1>8, <1>9

\* An exception, or the end of the process.
LEMMA AbortStep == ASSUME IInv, Fail \/ Crash PROVE IInv'
<1> USE DEF IInv, ReplayInv
<1>1. /\ command # Idle /\ command \in Commands /\ command.pc \in Steps
      /\ NoPaper \in Papers /\ paper \in Papers
      /\ database \in SUBSET Facts /\ \A f \in database : raw[f] = "whole"
      /\ aborts' \in 0 .. MaxAborts
  BY Typed, RestoreBounds DEF Fail, Crash, Commands, Papers, TypeOK, FactsReplayable, RawValid, Live
<1>2. CASE command' = Idle
  BY <1>1, <1>2, EndStep DEF Fail, Crash
<1>3. CASE Fail /\ Swapped
  <2>1. Go("undo") /\ paper' = NoPaper /\ command.pc \in {"paper", "database"}
    BY <1>3 DEF Fail, Swapped
  <2>2. /\ command' = [command EXCEPT !.pc = "undo", !.hidden = command.hidden]
        /\ command.hidden \in Papers /\ command.hidden = command.before.paper
        /\ "undo" \in Steps \ {"copy"}
    BY <1>1, <2>1, Stays DEF Steps, Early
  <2> QED BY <1>1, <1>3, <2>1, <2>2, GoStep DEF Fail, CommandInv, Early
<1> QED BY <1>2, <1>3 DEF Fail, Crash

LEMMA NextIInv == IInv /\ [Next]_vars => IInv'
<1> SUFFICES ASSUME IInv, [Next]_vars PROVE IInv'
  OBVIOUS
<1>1. ASSUME NEW copy \in backups \cup safeties, StartRestore(copy) PROVE IInv'
  BY <1>1, StartRestoreStep DEF Kept
<1>2. CASE UNCHANGED vars
  BY <1>2 DEF vars, Counters, IInv, ReplayInv, TypeOK, Live, FactsReplayable, RawValid, CommandInv,
              Agrees, Copying, Restorable, PaperValid, AttemptsClosed, TornKept, Kept
<1> QED
  BY <1>1, <1>2, OtherStep, TakeSafetyStep, SwapStep, StartCopyStep, FinishCopyStep, AbortStep
     DEF Next, RestoreStep

-----------------------------------------------------------------------------
(* The theorems.                                                           *)

\* Live files and backups have their types, and every live fact replays from
\* its raw file, whatever was restored or cut off (restore_local_backup).
THEOREM ReplayHolds == Spec => []ReplayInv
<1>1. IInv => ReplayInv
  BY DEF IInv
<1> QED BY <1>1, InitIInv, NextIInv, PTL DEF Spec

\* While a restore runs nothing else takes a step.
LEMMA Alone ==
    ASSUME IInv, Next, command # Idle
    PROVE  /\ RestoreStep \/ Fail \/ Crash
           /\ command \in Commands
<1>1. command \in Commands
  BY Typed DEF IInv, ReplayInv
<1>2. /\ \A f \in Facts : ~Ingest(f)
      /\ ~Trade /\ ~BreakRollover /\ ~RecoverRollover /\ ~Rescan /\ ~Backup
      /\ \A copy \in Kept : ~StartRestore(copy)
  BY DEF Ingest, Trade, BreakRollover, RecoverRollover, Rescan, Backup, StartRestore
<1> QED BY <1>1, <1>2 DEF Next, Kept

\* Which steps end a restore.
LEMMA Ends ==
    ASSUME IInv, Next, Ended
    PROVE  \/ SwapDatabase /\ command.pc = "database" /\ aborts' = aborts
           \/ Undo /\ command.pc = "undo"
           \/ /\ aborts' # aborts
              /\ command.pc \in Early => UNCHANGED <<database, paper>>
<1>1. command # Idle /\ command' = Idle /\ command \in Commands /\ aborts \in Nat
  BY Alone DEF Ended, IInv, ReplayInv, TypeOK
<1>2. ASSUME NEW next \in Steps, NEW hides,
             Go(next) \/ command' = [command EXCEPT !.pc = next, !.hidden = hides]
      PROVE  FALSE
  <2>1. command'.pc = next
    BY <1>1, <1>2 DEF Go, Commands
  <2> QED BY <1>1, <2>1 DEF Idle, Steps, Early
<1>3. /\ ~TakeSafety /\ ~MarkStale /\ ~HidePaper /\ ~InstallPaper
      /\ \A f \in Facts : ~StartCopy(f) /\ ~FinishCopy(f)
  BY <1>2 DEF TakeSafety, MarkStale, HidePaper, InstallPaper, StartCopy, FinishCopy, Go,
              Steps, Early
<1>4. CASE SwapDatabase
  BY <1>4 DEF SwapDatabase, At, Counters
<1>5. CASE Undo
  BY <1>5 DEF Undo, At
<1>6. CASE Fail \/ Crash
  BY <1>1, <1>6 DEF Fail, Crash, Swapped, Early
<1> QED BY <1>1, <1>3, <1>4, <1>5, <1>6, Alone DEF RestoreStep

\* A restore ends with database and paper of one and the same state, which fit
\* together, and never replaces a database whose operations evidence still
\* passes for current (restore_local_backup, _validate_staged_paper_state).
THEOREM RestoreHolds == Spec => RestoreSound
<1>1. IInv /\ [Next]_vars =>
        [(Ended /\ ~(aborts' # aborts /\ command.pc \in {"undo", "paper", "database"}))
          => \/ database' = command.before.database /\ paper' = command.before.paper
             \/ database' = command.source.database /\ paper' = command.source.paper]_vars
  <2> SUFFICES ASSUME IInv, Next, Ended,
                      ~(aborts' # aborts /\ command.pc \in {"undo", "paper", "database"})
               PROVE  \/ database' = command.before.database /\ paper' = command.before.paper
                      \/ database' = command.source.database /\ paper' = command.source.paper
    BY DEF vars
  <2>1. command # Idle /\ command \in Commands
    BY Alone DEF Ended
  <2>2. CASE SwapDatabase /\ command.pc = "database"
    BY <2>1, <2>2 DEF SwapDatabase, IInv, CommandInv
  <2>3. CASE Undo /\ command.pc = "undo"
    BY <2>1, <2>3 DEF Undo, IInv, CommandInv, ReplayInv, TypeOK
  <2>4. CASE command.pc \in Early /\ UNCHANGED <<database, paper>>
    BY <2>1, <2>4 DEF IInv, CommandInv
  <2> QED BY <2>1, <2>2, <2>3, <2>4, Ends DEF Commands, Steps
<1>2. IInv /\ [Next]_vars =>
        [(At("database") /\ Ended /\ aborts' = aborts) => PaperValid(Live')]_vars
  <2> SUFFICES ASSUME IInv, Next, At("database"), Ended, aborts' = aborts
               PROVE  PaperValid(Live')
    BY DEF vars
  <2>1. SwapDatabase /\ command # Idle
    BY Ends DEF At, Ended
  <2>2. database' = command.source.database /\ paper' = command.source.paper
    BY <2>1 DEF SwapDatabase, At, IInv, CommandInv
  <2> QED BY <2>1, <2>2 DEF IInv, CommandInv, Restorable, PaperValid, AttemptsClosed, Live
<1>3. IInv /\ [Next]_vars => [(command # Idle /\ database' # database) => stale]_vars
  <2> SUFFICES ASSUME IInv, Next, command # Idle, database' # database PROVE stale
    BY DEF vars
  <2>1. SwapDatabase
    BY Alone DEF RestoreStep, TakeSafety, MarkStale, HidePaper, InstallPaper, StartCopy,
                 FinishCopy, Undo, Fail, Crash
  <2> QED BY <2>1 DEF SwapDatabase, At, IInv, CommandInv
<1> QED BY <1>1, <1>2, <1>3, InitIInv, NextIInv, PTL
       DEF Spec, RestoreSound, RestoreAllOrNothing, RestoredFits, EvidenceMarked

-----------------------------------------------------------------------------
(***************************************************************************)
(* IssuerFacts.  The table is what the whole log reads (LogKept), so that  *)
(* what a boundary read once it reads of every longer log.  Every row of a *)
(* reviewed issuer replays from the run it cites (RowKept), so a repair    *)
(* only takes legacy rows, and no write of one issuer reaches the rows of  *)
(* another.  A plan carries what its evidence says (PlanKept), and its     *)
(* transaction is followed from issuer to issuer (Done), whatever the      *)
(* order in which they are replaced.                                       *)
(***************************************************************************)

IsList(s) == s \in Seq({s[i] : i \in DOMAIN s})

(* The runs, the rows and the plans, each in the shape the steps give it.  *)
RunOf(i) == [issuer : {i}, response : DOMAIN Feed[i], day : Nat, parsed : BOOLEAN,
             outcome : {"none", "success", "warning", "failed"}]
RunsKept ==
  /\ IsList(runs) /\ day \in 1..LastDay /\ ingest \in 0..Len(runs)
  /\ \A r \in DOMAIN runs : \E i \in Issuers : runs[r] \in RunOf(i)

RowKept(k, s) ==
  /\ k = <<k[1], s.row.end, s.row.filed, s.row.metric>>
  /\ s.issuer # NoIssuer =>
       /\ s.issuer \in Issuers /\ s.parser \in Parsers /\ k[1] = Ticker[s.issuer]
       /\ s.snapshot \in DOMAIN runs /\ runs[s.snapshot].issuer = s.issuer
       /\ s.row \in Parsed[s.issuer][runs[s.snapshot].response][s.parser].rows
RowsKept == \A k \in DOMAIN facts : RowKept(k, facts[k])

WholeOf(rel, i) ==
  LiveRelation(rel, i) # {} =>
    \E r \in DOMAIN runs, v \in {"v2s2", "v3", "v4"} :
      /\ runs[r].issuer = i /\ runs[r].parsed
      /\ LiveRelation(rel, i) = Relation(Parsed[i][runs[r].response][v].rows)

LogKept ==
  /\ IsList(versions) /\ IsList(generations)
  /\ AsRead(versions, Len(versions)) = facts
  /\ \A g \in DOMAIN generations : /\ generations[g].boundary \in 0..Len(versions)
                                   /\ AsRead(versions, generations[g].boundary) = generations[g].seen

PlanKept(p) ==
  /\ p.issuers \subseteq Issuers /\ p.target \in {"v3", "v4"} /\ p.asof \in Nat
  /\ \A i \in p.issuers :
       LET r == p.review.evidence[i] IN
       /\ r \in Observed(i, p.asof) /\ runs[r].parsed
       /\ p.after[i] = Parsed[i][runs[r].response][p.target].rows
PlansKept ==
  /\ IsList(plans) /\ \A n \in DOMAIN plans : PlanKept(plans[n])
  /\ accepted \subseteq DOMAIN plans /\ checked \in 0..Len(plans)

FactsIInv ==
  /\ RunsKept /\ RowsKept /\ LogKept /\ PlansKept /\ faults \in 0..MaxFaults
  /\ \A i \in Issuers : WholeOf(facts, i)
-----------------------------------------------------------------------------
(* Numbers and lists.                                                      *)

LEMMA LeastOf ==
  ASSUME NEW S \in SUBSET Nat, S # {}
  PROVE  Min(S) \in S /\ \A x \in S : Min(S) <= x
<1>1. PICK t \in S : \A y \in S : ~ (<<y, t>> \in OpToRel(<, Nat))
  BY NatLessThanWellFounded, WFMin
<1>2. \A y \in S : ~ (y < t)
  <2> SUFFICES ASSUME NEW y \in S PROVE ~ (y < t)
    OBVIOUS
  <2>1. y \in Nat /\ t \in Nat /\ <<y, t>> \notin OpToRel(<, Nat)
    BY <1>1
  <2> QED BY <2>1, Zenon DEF OpToRel
<1>3. \A y \in S : t =< y
  BY <1>2
<1> QED BY <1>3, Zenon DEF Min

LEMMA GreatestOf ==
  ASSUME NEW n \in Nat, NEW S \in SUBSET (0..n), S # {}
  PROVE  Max(S) \in S /\ \A x \in S : x <= Max(S)
<1> DEFINE T == {n - x : x \in S}
<1>1. T \in SUBSET Nat /\ T # {}
  <2>1. \A x \in S : n - x \in Nat
    OBVIOUS
  <2> QED BY <2>1 DEF T
<1>2. Min(T) \in T /\ \A y \in T : Min(T) <= y
  <2> HIDE DEF T
  <2> QED BY <1>1, LeastOf
<1>3. PICK m \in S : Min(T) = n - m
  BY <1>2 DEF T
<1>4. \A x \in S : n - x \in T
  BY DEF T
<1> HIDE DEF T
<1>5. \A x \in S : m >= x
  BY <1>1, <1>2, <1>3, <1>4
<1>6. Max(S) \in S /\ \A x \in S : Max(S) >= x
  BY <1>5, Zenon DEF Max
<1> QED BY <1>6

(* Induction without an operator: the smallest number that fails.          *)
LEMMA Smallest ==
  ASSUME NEW T \in SUBSET Nat, 0 \in T, \A n \in Nat : n \in T => n + 1 \in T
  PROVE  T = Nat
<1> SUFFICES ASSUME Nat \ T # {} PROVE FALSE
  OBVIOUS
<1>1. Min(Nat \ T) \in Nat \ T /\ \A x \in Nat \ T : Min(Nat \ T) <= x
  BY LeastOf
<1>2. PICK m \in Nat \ T : \A x \in Nat \ T : m <= x
  BY <1>1
<1>3. m # 0 /\ m - 1 \in Nat
  OBVIOUS
<1>4. m - 1 \in T
  BY <1>2, <1>3
<1>5. (m - 1) + 1 = m
  OBVIOUS
<1> QED BY <1>3, <1>4, <1>5


LEMMA ListIs ==
  ASSUME NEW s, IsList(s)
  PROVE  Len(s) \in Nat /\ DOMAIN s = 1..Len(s)
  BY DEF IsList

LEMMA ListAppend ==
  ASSUME NEW s, IsList(s), NEW x
  PROVE  /\ IsList(Append(s, x)) /\ Len(Append(s, x)) = Len(s) + 1
         /\ DOMAIN Append(s, x) = 1..Len(s) + 1
         /\ \A i \in DOMAIN s : Append(s, x)[i] = s[i]
         /\ Append(s, x)[Len(s) + 1] = x
<1> DEFINE S == {s[i] : i \in DOMAIN s} \cup {x}
           t == Append(s, x)
<1>1. s \in Seq(S)
  BY DEF IsList
<1>2. t \in Seq(S) /\ Len(t) = Len(s) + 1
  BY <1>1
<1>3. DOMAIN t = 1..Len(s) + 1 /\ (\A i \in DOMAIN s : t[i] = s[i]) /\ t[Len(s) + 1] = x
  BY <1>1
<1>4. S = {t[i] : i \in DOMAIN t}
  BY <1>1, <1>3
<1>5. IsList(t)
  BY <1>2, <1>4 DEF IsList
<1> QED BY <1>2, <1>3, <1>5
-----------------------------------------------------------------------------
(* Reading the version log.                                             *)

NamesIn(l, n) == DOMAIN l[n].put \cup l[n].gone
LastOf(l, b, k) == Max({n \in 1..b : k \in NamesIn(l, n)})
KeysIn(l, b) == UNION {NamesIn(l, n) : n \in 1..b}
ReadIn(l, b) == {k \in KeysIn(l, b) : k \notin l[LastOf(l, b, k)].gone}

LEMMA AsReadIs ==
  ASSUME NEW l, NEW b
  PROVE  AsRead(l, b) = [k \in ReadIn(l, b) |-> l[LastOf(l, b, k)].put[k]]
BY Zenon DEF AsRead, ReadIn, KeysIn, LastOf, NamesIn

LEMMA LastIs ==
  ASSUME NEW l, NEW b \in Nat, NEW k \in KeysIn(l, b)
  PROVE  /\ LastOf(l, b, k) \in 1..b /\ k \in NamesIn(l, LastOf(l, b, k))
         /\ \A n \in 1..b : k \in NamesIn(l, n) => n <= LastOf(l, b, k)
<1> DEFINE S == {n \in 1..b : k \in NamesIn(l, n)}
<1>1. S \in SUBSET (0..b) /\ S # {}
  BY DEF KeysIn
<1>2. \A n : n \in S <=> n \in 1..b /\ k \in NamesIn(l, n)
  OBVIOUS
<1>3. LastOf(l, b, k) = Max(S)
  BY DEF LastOf
<1> HIDE DEF S
<1>4. Max(S) \in S /\ \A n \in S : n <= Max(S)
  BY <1>1, GreatestOf
<1> QED BY <1>2, <1>3, <1>4

(* What was logged up to a boundary is read whatever is logged after it.   *)
LEMMA AsReadPrefix ==
  ASSUME NEW l, NEW m, NEW b \in Nat, \A n \in 1..b : l[n] = m[n]
  PROVE  AsRead(l, b) = AsRead(m, b)
<1>1. \A n \in 1..b : NamesIn(l, n) = NamesIn(m, n)
  BY DEF NamesIn
<1>2. KeysIn(l, b) = KeysIn(m, b)
  BY <1>1 DEF KeysIn
<1>3. ASSUME NEW k PROVE LastOf(l, b, k) = LastOf(m, b, k)
  <2>1. {n \in 1..b : k \in NamesIn(l, n)} = {n \in 1..b : k \in NamesIn(m, n)}
    BY <1>1
  <2> QED BY <2>1, Zenon DEF LastOf
<1>4. \A k \in KeysIn(l, b) : l[LastOf(l, b, k)] = m[LastOf(m, b, k)]
  <2> TAKE k \in KeysIn(l, b)
  <2>1. LastOf(l, b, k) \in 1..b
    BY LastIs
  <2> QED BY <1>3, <2>1
<1>5. ReadIn(l, b) = ReadIn(m, b)
  BY <1>2, <1>4 DEF ReadIn
<1>6. [k \in ReadIn(l, b) |-> l[LastOf(l, b, k)].put[k]]
        = [k \in ReadIn(m, b) |-> m[LastOf(m, b, k)].put[k]]
  <2>1. \A k \in ReadIn(l, b) : l[LastOf(l, b, k)].put[k] = m[LastOf(m, b, k)].put[k]
    BY <1>4 DEF ReadIn
  <2> QED BY <1>5, <2>1
<1> QED BY <1>6, AsReadIs

(* One more entry replaces what it puts and takes away what it deletes.    *)
LEMMA AsReadMore ==
  ASSUME NEW l, NEW b \in Nat, NEW put, NEW gone, DOMAIN put \cap gone = {},
         l[b + 1] = [put |-> put, gone |-> gone]
  PROVE  AsRead(l, b + 1) =
           [k \in DOMAIN put \cup (DOMAIN AsRead(l, b) \ gone) |->
              IF k \in DOMAIN put THEN put[k] ELSE AsRead(l, b)[k]]
<1>1. NamesIn(l, b + 1) = DOMAIN put \cup gone
  BY DEF NamesIn
<1>2. KeysIn(l, b + 1) = KeysIn(l, b) \cup NamesIn(l, b + 1)
  <2>1. 1..(b + 1) = (1..b) \cup {b + 1}
    OBVIOUS
  <2> QED BY <2>1, Zenon DEF KeysIn
<1>3. ASSUME NEW k \in NamesIn(l, b + 1) PROVE LastOf(l, b + 1, k) = b + 1
  <2>1. k \in KeysIn(l, b + 1) /\ b + 1 \in Nat /\ b + 1 \in 1..(b + 1)
    BY <1>2, <1>3
  <2>2. LastOf(l, b + 1, k) \in 1..(b + 1) /\ b + 1 <= LastOf(l, b + 1, k)
    BY <1>3, <2>1, LastIs
  <2> QED BY <2>2
<1>4. ASSUME NEW k, k \notin NamesIn(l, b + 1) PROVE LastOf(l, b + 1, k) = LastOf(l, b, k)
  <2>1. {n \in 1..(b + 1) : k \in NamesIn(l, n)} = {n \in 1..b : k \in NamesIn(l, n)}
    <3>1. 1..(b + 1) = (1..b) \cup {b + 1}
      OBVIOUS
    <3> QED BY <1>4, <3>1, Zenon
  <2> QED BY <2>1, Zenon DEF LastOf
<1>5. ASSUME NEW k PROVE k \in ReadIn(l, b + 1) <=> k \in DOMAIN put \cup (ReadIn(l, b) \ gone)
  <2>1. CASE k \in NamesIn(l, b + 1)
    <3>1. k \in ReadIn(l, b + 1) <=> k \notin gone
      BY <1>2, <1>3, <2>1 DEF ReadIn
    <3> QED BY <1>1, <2>1, <3>1
  <2>2. CASE k \notin NamesIn(l, b + 1)
    <3>1. k \in ReadIn(l, b + 1) <=> k \in ReadIn(l, b)
      BY <1>2, <1>4, <2>2 DEF ReadIn
    <3> QED BY <1>1, <2>2, <3>1
  <2> QED BY <2>1, <2>2
<1>6. ASSUME NEW k \in ReadIn(l, b + 1)
      PROVE  l[LastOf(l, b + 1, k)].put[k]
               = IF k \in DOMAIN put THEN put[k] ELSE l[LastOf(l, b, k)].put[k]
  <2>1. CASE k \in DOMAIN put
    BY <1>1, <1>3, <2>1
  <2>2. CASE k \notin DOMAIN put
    BY <1>1, <1>4, <1>5, <2>2
  <2> QED BY <2>1, <2>2
<1> DEFINE R == AsRead(l, b)
<1>7. DOMAIN R = ReadIn(l, b) /\ \A k \in ReadIn(l, b) : R[k] = l[LastOf(l, b, k)].put[k]
  BY AsReadIs
<1> HIDE DEF R
<1>8. ReadIn(l, b + 1) = DOMAIN put \cup (DOMAIN R \ gone)
  BY <1>5, <1>7
<1>9. \A k \in ReadIn(l, b + 1) : l[LastOf(l, b + 1, k)].put[k]
                                    = IF k \in DOMAIN put THEN put[k] ELSE R[k]
  BY <1>5, <1>6, <1>7
<1>10. [k \in ReadIn(l, b + 1) |-> l[LastOf(l, b + 1, k)].put[k]]
        = [k \in DOMAIN put \cup (DOMAIN R \ gone) |-> IF k \in DOMAIN put THEN put[k] ELSE R[k]]
  BY <1>8, <1>9
<1>11. AsRead(l, b + 1) = [k \in ReadIn(l, b + 1) |-> l[LastOf(l, b + 1, k)].put[k]]
  BY AsReadIs
<1> QED BY <1>10, <1>11 DEF R

(* A table and its log, of which an older log is the beginning.            *)
Logged(t) == IsList(t.versions) /\ AsRead(t.versions, Len(t.versions)) = t.facts
Longer(l, m) == Len(l) <= Len(m) /\ \A n \in 1..Len(l) : m[n] = l[n]

LEMMA UpsertLogged ==
  ASSUME NEW t, Logged(t), NEW incoming
  PROVE  Logged(Upsert(t, incoming)) /\ Longer(t.versions, Upsert(t, incoming).versions)
<1> DEFINE new == [k \in DOMAIN incoming |-> Merged(t, k, incoming[k])]
           l == t.versions
           e == [put |-> new, gone |-> {}]
<1>1. Upsert(t, incoming).facts = Over(new, t.facts) /\ Upsert(t, incoming).versions = Append(l, e)
  BY DEF Upsert
<1>2. IsList(l) /\ AsRead(l, Len(l)) = t.facts
  BY DEF Logged
<1> HIDE DEF new
<1>3. /\ IsList(Append(l, e)) /\ Len(l) \in Nat /\ Len(Append(l, e)) = Len(l) + 1
      /\ \A n \in 1..Len(l) : Append(l, e)[n] = l[n]
      /\ Append(l, e)[Len(l) + 1] = e
  BY <1>2, ListAppend, ListIs
<1> DEFINE m == Append(l, e)
<1> HIDE DEF l, m
<1>4. AsRead(m, Len(l) + 1) = Over(new, t.facts)
  <2> PICK b \in Nat : b = Len(l)
    BY <1>3
  <2> PICK none : none = {}
    OBVIOUS
  <2>1. AsRead(m, b) = t.facts
    BY <1>2, <1>3, AsReadPrefix DEF m
  <2>2. DOMAIN new \cap none = {} /\ m[b + 1] = [put |-> new, gone |-> none]
    BY <1>3 DEF m
  <2>3. AsRead(m, b + 1) =
           [k \in DOMAIN new \cup (DOMAIN AsRead(m, b) \ none) |->
              IF k \in DOMAIN new THEN new[k] ELSE AsRead(m, b)[k]]
    BY ONLY <2>2, AsReadMore
  <2>4. DOMAIN new \cup (DOMAIN t.facts \ none) = DOMAIN new \cup DOMAIN t.facts
    OBVIOUS
  <2> QED BY <2>1, <2>3, <2>4 DEF Over
<1>5. Longer(l, m)
  BY <1>3 DEF Longer, m
<1> QED BY <1>1, <1>3, <1>4, <1>5 DEF Logged, l, m

LEMMA DeleteLogged ==
  ASSUME NEW t, Logged(t), NEW keys
  PROVE  Logged(Delete(t, keys)) /\ Longer(t.versions, Delete(t, keys).versions)
<1> DEFINE l == t.versions
           e == [put |-> << >>, gone |-> keys]
           m == Append(l, e)
<1>1. /\ Delete(t, keys).facts = [k \in DOMAIN t.facts \ keys |-> t.facts[k]]
      /\ Delete(t, keys).versions = m
  BY DEF Delete, Restrict
<1>2. IsList(l) /\ AsRead(l, Len(l)) = t.facts
  BY DEF Logged
<1>3. /\ IsList(m) /\ Len(l) \in Nat /\ Len(m) = Len(l) + 1
      /\ \A n \in 1..Len(l) : m[n] = l[n]
      /\ m[Len(l) + 1] = e
  BY <1>2, ListAppend, ListIs
<1>4. DOMAIN << >> = {}
  OBVIOUS
<1> HIDE DEF l, m
<1>5. AsRead(m, Len(l) + 1) = [k \in DOMAIN t.facts \ keys |-> t.facts[k]]
  <2> PICK b \in Nat : b = Len(l)
    BY <1>3
  <2> PICK none : none = << >> /\ DOMAIN none = {}
    BY <1>4
  <2>1. AsRead(m, b) = t.facts
    BY <1>2, <1>3, AsReadPrefix
  <2>2. DOMAIN none \cap keys = {} /\ m[b + 1] = [put |-> none, gone |-> keys]
    BY <1>3
  <2>3. AsRead(m, b + 1) =
           [k \in DOMAIN none \cup (DOMAIN AsRead(m, b) \ keys) |->
              IF k \in DOMAIN none THEN none[k] ELSE AsRead(m, b)[k]]
    BY ONLY <2>2, AsReadMore
  <2> QED BY <2>1, <2>3
<1>6. Longer(l, m)
  BY <1>3 DEF Longer
<1> QED BY <1>1, <1>3, <1>5, <1>6 DEF Logged, l

LEMMA LongerTrans ==
  ASSUME NEW l, NEW m, NEW o, IsList(l), IsList(m), IsList(o), Longer(l, m), Longer(m, o)
  PROVE  Longer(l, o)
<1>1. Len(l) \in Nat /\ Len(m) \in Nat /\ Len(o) \in Nat
  BY ListIs
<1> QED BY <1>1 DEF Longer

(* A longer log reads the same up to a boundary of the older one.          *)
LEMMA LongerReads ==
  ASSUME NEW l, NEW m, IsList(l), IsList(m), Longer(l, m), NEW b \in 0..Len(l)
  PROVE  b \in 0..Len(m) /\ AsRead(m, b) = AsRead(l, b)
<1>1. Len(l) \in Nat /\ Len(m) \in Nat /\ b \in Nat
  BY ListIs
<1>2. \A n \in 1..b : l[n] = m[n]
  BY <1>1 DEF Longer
<1>3. b \in 0..Len(m)
  BY <1>1 DEF Longer
<1> QED BY <1>1, <1>2, <1>3, AsReadPrefix
-----------------------------------------------------------------------------
(* What the parsers give.                                                 *)

LEMMA StorableIs ==
  ASSUME NEW v, NEW metric, NEW rows, NEW c \in Storable(v, metric, rows)
  PROVE  /\ c.at \in Nat
         /\ \E m : c.row = ProviderRow(v, metric, rows, rows[m]) /\ rows[m].raw.end <= rows[m].raw.filed
<1>1. PICK n \in {m \in 1..Len(rows) : rows[m].raw.val # None /\ rows[m].raw.end <= rows[m].raw.filed} :
        c = [row |-> ProviderRow(v, metric, rows, rows[n]), at |-> n,
             priority |-> rows[n].priority,
             locator |-> IF Strict(v) THEN {<<rows[n].raw.concept, rows[n].raw.accn>>} ELSE {}]
  BY Zenon DEF Storable
<1>2. n \in Int /\ 1 <= n /\ rows[n].raw.end <= rows[n].raw.filed
  OBVIOUS
<1>3. c.at = n /\ c.row = ProviderRow(v, metric, rows, rows[n])
  BY <1>1
<1> QED BY <1>2, <1>3

LEMMA WinnerIs ==
  ASSUME NEW peers, peers # {}, \A c \in peers : c.at \in Nat
  PROVE  \E c \in peers : \E locator : Winner(peers) = [c.row EXCEPT !.locator = locator]
<1> DEFINE ats == {c.at : c \in peers}
           first == CHOOSE c \in peers : \A d \in peers : c.at <= d.at
<1>1. ats \in SUBSET Nat /\ ats # {}
  OBVIOUS
<1>2. \A d \in peers : d.at \in ats
  OBVIOUS
<1>3. \A x \in ats : \E c \in peers : c.at = x
  OBVIOUS
<1> HIDE DEF ats
<1>4. Min(ats) \in ats /\ \A x \in ats : Min(ats) <= x
  BY <1>1, LeastOf
<1>5. \E c \in peers : \A d \in peers : c.at <= d.at
  BY <1>2, <1>3, <1>4
<1>6. first \in peers
  BY <1>5
<1>7. Winner(peers) = [first.row EXCEPT !.locator = UNION {c.locator : c \in {d \in peers : d.row = first.row}}]
  BY DEF Winner
<1> HIDE DEF first
<1> QED BY <1>6, <1>7

LEMMA SelectedIs ==
  ASSUME NEW v, NEW metric, NEW rows,
         NEW w \in Selected(v, metric, Storable(v, metric, rows)).rows
  PROVE  w.metric = metric /\ w.end <= w.filed
<1> DEFINE cands == Storable(v, metric, rows)
           group(c) == Preferred(v, metric, {d \in cands : StorageKey(d.row) = StorageKey(c.row)})
           groups == {group(c) : c \in cands}
<1>1. Selected(v, metric, cands).rows = {Winner(g) : g \in {h \in groups : v = "v2s2" \/ Agreed(h)}}
  BY DEF Selected
<1>2. PICK c \in cands : w = Winner(group(c)) /\ (v = "v2s2" \/ Agreed(group(c)))
  BY <1>1
<1>3. group(c) \subseteq cands
  BY DEF Preferred
<1>4. group(c) # {}
  <2>1. CASE v = "v2s2"
    BY <2>1 DEF Preferred
  <2>2. CASE Agreed(group(c))
    <3> HIDE DEF group
    <3> SUFFICES ASSUME group(c) = {} PROVE FALSE
      OBVIOUS
    <3>1. {d.row : d \in group(c)} = {}
      OBVIOUS
    <3>2. Cardinality({d.row : d \in group(c)}) = 0
      BY <3>1, FS_EmptySet, Zenon
    <3> QED BY <2>2, <3>2 DEF Agreed
  <2> QED BY <1>2, <2>1, <2>2
<1> HIDE DEF group, groups
<1>5. \A d \in group(c) : d.at \in Nat
  BY <1>3, StorableIs
<1>6. PICK d \in group(c) : \E locator : w = [d.row EXCEPT !.locator = locator]
  BY <1>2, <1>4, <1>5, WinnerIs
<1>7. PICK m : d.row = ProviderRow(v, metric, rows, rows[m]) /\ rows[m].raw.end <= rows[m].raw.filed
  BY <1>3, StorableIs
<1>8. d.row.metric = metric /\ d.row.end = rows[m].raw.end /\ d.row.filed = rows[m].raw.filed
      /\ DOMAIN d.row = {"end", "filed", "metric", "period", "value", "quarter", "unit", "locator"}
  BY <1>7 DEF ProviderRow
<1>9. w.metric = d.row.metric /\ w.end = d.row.end /\ w.filed = d.row.filed
  BY <1>6, <1>8
<1> QED BY <1>7, <1>8, <1>9

LEMMA ParsedIs ==
  ASSUME NEW i \in Issuers, NEW n \in DOMAIN Feed[i], NEW v \in Parsers, NEW w \in Parsed[i][n][v].rows
  PROVE  w.metric \in Metrics /\ w.end <= w.filed
<1>1. Parsed[i][n][v] = Parse(v, Cohort[i], Feed[i][n])
  BY DEF Parsed
<1> PICK cohort, payload : cohort = Cohort[i] /\ payload = Feed[i][n]
  OBVIOUS
<1> DEFINE results == [metric \in Metrics |-> ResultOf(v, metric, Candidates(payload, v, cohort, metric))]
<1>2. Parse(v, cohort, payload).rows \subseteq UNION {results[metric].rows : metric \in Metrics}
  BY DEF Parse
<1>3. w \in UNION {results[metric].rows : metric \in Metrics}
  BY <1>1, <1>2
<1>4. PICK metric \in Metrics : w \in results[metric].rows
  BY <1>3
<1>5. results[metric].rows
        = Selected(v, metric, Storable(v, metric, Accepted(v, metric, Candidates(payload, v, cohort, metric)))).rows
  BY DEF ResultOf, Result
<1> HIDE DEF results
<1> QED BY <1>4, <1>5, SelectedIs
-----------------------------------------------------------------------------
(* Folds over a set: the transaction of an activation, issuer by issuer,   *)
(* and a sum.                                                              *)

OneOf(x) == CHOOSE i \in x : TRUE
Advanced(t, n, i) == Activated(t, n, i, Newest(i, plans[n].asof))
Do(kind, p, t, i) == IF kind = "sum" THEN p[i] + t ELSE Advanced(t, p, i)
IsFold(f, D, kind, n, b) ==
  f = [x \in D |-> IF x = {} THEN b ELSE Do(kind, n, f[x \ {OneOf(x)}], OneOf(x))]
Small(S, k) == {x \in SUBSET S : Cardinality(x) <= k}

LEMMA Smaller ==
  ASSUME NEW S, IsFiniteSet(S), NEW x \in SUBSET S, x # {}
  PROVE  /\ OneOf(x) \in x /\ x \ {OneOf(x)} \in SUBSET S
         /\ Cardinality(x) \in Nat /\ Cardinality(x \ {OneOf(x)}) = Cardinality(x) - 1
<1>1. OneOf(x) \in x
  BY DEF OneOf
<1>2. IsFiniteSet(x)
  BY FS_Subset
<1>3. Cardinality(x) \in Nat
  BY <1>2, FS_CardinalityType
<1>4. Cardinality(x \ {OneOf(x)}) = Cardinality(x) - 1
  BY <1>1, <1>2, FS_RemoveElement
<1> QED BY <1>1, <1>3, <1>4

LEMMA FoldMore ==
  ASSUME NEW S, IsFiniteSet(S), NEW kind, NEW n, NEW b, NEW k \in Nat, NEW f, IsFold(f, Small(S, k), kind, n, b)
  PROVE  \E g : IsFold(g, Small(S, k + 1), kind, n, b)
<1> DEFINE D == Small(S, k)
           E == Small(S, k + 1)
           g == [x \in E |-> IF x \in D THEN f[x] ELSE Do(kind, n, f[x \ {OneOf(x)}], OneOf(x))]
<1>1. ASSUME NEW x \in D PROVE f[x] = IF x = {} THEN b ELSE Do(kind, n, f[x \ {OneOf(x)}], OneOf(x))
  BY DEF IsFold
<1>2. {} \in D
  BY FS_EmptySet DEF Small
<1>3. ASSUME NEW x \in E, x # {} PROVE x \ {OneOf(x)} \in D /\ x \ {OneOf(x)} \in E
  <2>1. Cardinality(x) \in Nat /\ Cardinality(x) <= k + 1 /\ x \in SUBSET S
        /\ x \ {OneOf(x)} \in SUBSET S /\ Cardinality(x \ {OneOf(x)}) = Cardinality(x) - 1
    BY <1>3, Smaller DEF Small
  <2> QED BY <2>1 DEF Small
<1>4. ASSUME NEW x \in E PROVE g[x] = IF x = {} THEN b ELSE Do(kind, n, g[x \ {OneOf(x)}], OneOf(x))
  <2>1. CASE x = {}
    BY <1>1, <1>2, <2>1
  <2>2. CASE x # {}
    <3>1. g[x \ {OneOf(x)}] = f[x \ {OneOf(x)}]
      BY <1>3, <2>2
    <3>2. g[x] = Do(kind, n, f[x \ {OneOf(x)}], OneOf(x))
      BY <1>1, <2>2
    <3> QED BY <2>2, <3>1, <3>2
  <2> QED BY <2>1, <2>2
<1>5. g = [x \in E |-> g[x]]
  OBVIOUS
<1> HIDE DEF g
<1>6. IsFold(g, E, kind, n, b)
  BY <1>4, <1>5, Zenon DEF IsFold
<1> QED BY <1>6

LEMMA FoldExists ==
  ASSUME NEW S, IsFiniteSet(S), NEW kind, NEW n, NEW b
  PROVE  \E f : IsFold(f, SUBSET S, kind, n, b)
<1> DEFINE T == {k \in Nat : \E f : IsFold(f, Small(S, k), kind, n, b)}
<1>1. 0 \in T
  <2> DEFINE f == [x \in Small(S, 0) |-> b]
  <2>1. ASSUME NEW x \in Small(S, 0) PROVE x = {}
    <3>1. IsFiniteSet(x) /\ Cardinality(x) <= 0
      BY FS_Subset DEF Small
    <3>2. Cardinality(x) \in Nat /\ (Cardinality(x) = 0 <=> x = {})
      BY <3>1, FS_CardinalityType, FS_EmptySet
    <3> QED BY <3>1, <3>2
  <2>2. f = [x \in Small(S, 0) |-> IF x = {} THEN b ELSE Do(kind, n, f[x \ {OneOf(x)}], OneOf(x))]
    BY <2>1
  <2>3. IsFold(f, Small(S, 0), kind, n, b)
    BY <2>2, Zenon DEF IsFold
  <2> HIDE DEF f
  <2> QED BY <2>3
<1>2. \A k \in Nat : k \in T => k + 1 \in T
  <2> SUFFICES ASSUME NEW k \in Nat, NEW f, IsFold(f, Small(S, k), kind, n, b) PROVE k + 1 \in T
    OBVIOUS
  <2> QED BY FoldMore
<1>3. T \in SUBSET Nat
  OBVIOUS
<1> HIDE DEF T
<1>4. T = Nat
  BY <1>1, <1>2, <1>3, Smallest
<1>5. Cardinality(S) \in Nat /\ Small(S, Cardinality(S)) = SUBSET S
  BY FS_CardinalityType, FS_Subset DEF Small
<1>6. Cardinality(S) \in T
  BY <1>4, <1>5
<1> QED BY <1>5, <1>6, Zenon DEF T

IsTransaction(f, S, n, b) ==
  f = [x \in SUBSET S |-> IF x = {} THEN b ELSE Advanced(f[x \ {OneOf(x)}], n, OneOf(x))]

LEMMA TransactionIs ==
  ASSUME NEW table, NEW n, IsFiniteSet(plans[n].issuers)
  PROVE  \E f : /\ IsTransaction(f, plans[n].issuers, n, [facts |-> table, versions |-> versions, ok |-> TRUE])
                /\ Transaction(table, n) = f[plans[n].issuers]
<1> DEFINE b == [facts |-> table, versions |-> versions, ok |-> TRUE]
           S == plans[n].issuers
           g == CHOOSE f : IsTransaction(f, S, n, b)
<1>1. \E f : IsTransaction(f, S, n, b)
  <2>1. PICK kind : kind = "plan"
    OBVIOUS
  <2> HIDE DEF b
  <2>2. PICK f : IsFold(f, SUBSET S, kind, n, b)
    BY FoldExists
  <2>3. ASSUME NEW x \in SUBSET S
        PROVE  f[x] = IF x = {} THEN b ELSE Advanced(f[x \ {OneOf(x)}], n, OneOf(x))
    BY <2>1, <2>2 DEF IsFold, Do
  <2>4. f = [x \in SUBSET S |-> f[x]]
    BY <2>2 DEF IsFold
  <2> QED BY <2>3, <2>4, Zenon DEF IsTransaction
<1>2. IsTransaction(g, S, n, b)
  BY <1>1, Zenon
<1>3. Transaction(table, n) = g[S]
  BY Zenon DEF Transaction, FoldSet, MapThenFoldSet, IsTransaction, Advanced, OneOf
<1> QED BY <1>2, <1>3

LEMMA LiveSame ==
  ASSUME NEW old, NEW new, NEW j,
         \A k \in DOMAIN old : old[k].issuer = j => k \in DOMAIN new /\ new[k] = old[k],
         \A k \in DOMAIN new : new[k].issuer = j => k \in DOMAIN old /\ new[k] = old[k]
  PROVE  LiveRelation(new, j) = LiveRelation(old, j)
<1>1. KeysOf(new, j) = KeysOf(old, j)
  BY DEF KeysOf
<1>2. \A k \in KeysOf(new, j) : new[k] = old[k]
  BY DEF KeysOf
<1> QED BY <1>1, <1>2 DEF LiveRelation

LEMMA ByKeyIs ==
  ASSUME NEW i, NEW rows, NEW k \in DOMAIN ByKey(i, rows)
  PROVE  ByKey(i, rows)[k] \in rows /\ Key(i, ByKey(i, rows)[k]) = k
<1>1. \E r \in rows : Key(i, r) = k
  BY DEF ByKey
<1>2. ByKey(i, rows)[k] = CHOOSE r \in rows : Key(i, r) = k
  BY DEF ByKey
<1> QED BY <1>1, <1>2

LEMMA NewestIs ==
  ASSUME RunsKept, PlansKept, NEW n \in DOMAIN plans, NEW i \in plans[n].issuers
  PROVE  /\ Newest(i, plans[n].asof) \in DOMAIN runs
         /\ runs[Newest(i, plans[n].asof)].issuer = i /\ i \in Issuers
<1>1. PlanKept(plans[n])
  BY DEF PlansKept
<1>2. Observed(i, plans[n].asof) # {} /\ i \in Issuers
  BY <1>1 DEF PlanKept
<1>3. DOMAIN runs = 1..Len(runs) /\ Len(runs) \in Nat
  BY ListIs DEF RunsKept
<1>4. Observed(i, plans[n].asof) \in SUBSET (0..Len(runs))
  BY <1>3 DEF Observed
<1>5. Newest(i, plans[n].asof) \in Observed(i, plans[n].asof)
  <2> DEFINE O == Observed(i, plans[n].asof)
  <2>1. Newest(i, plans[n].asof) = Max(O)
    BY DEF Newest
  <2> HIDE DEF O
  <2> QED BY <1>2, <1>3, <1>4, <2>1, GreatestOf DEF O
<1> QED BY <1>2, <1>5 DEF Observed

(* What the transaction has done for the issuers x of plan n.              *)
Done(x, t, n) ==
  /\ t = [facts |-> t.facts, versions |-> t.versions, ok |-> t.ok]
  /\ t.ok =>
       /\ Logged(t) /\ Longer(versions, t.versions)
       /\ \A k \in DOMAIN t.facts : RowKept(k, t.facts[k])
       /\ \A i \in x : LiveRelation(t.facts, i) = Relation(plans[n].after[i])
       /\ \A k \in DOMAIN facts : facts[k].issuer \notin x \cup {NoIssuer} =>
                                    k \in DOMAIN t.facts /\ t.facts[k] = facts[k]
       /\ \A k \in DOMAIN t.facts : t.facts[k].issuer \notin x \cup {NoIssuer} =>
                                      k \in DOMAIN facts /\ t.facts[k] = facts[k]
LEMMA MergedIs ==
  ASSUME NEW t, NEW k, NEW i, NEW security, NEW run, NEW snapshot, NEW parser, NEW row
  PROVE  LET m == Merged(t, k, Stored(i, security, run, snapshot, parser, row)) IN
         m.issuer = i /\ m.snapshot = snapshot /\ m.parser = parser /\ m.row = row
BY DEF Merged, Stored

(* One write: what was put, and then what was deleted of the issuer's.     *)
Put(t, incoming, gone, i) ==
  Delete(Upsert(t, incoming), gone \cap KeysOf(Upsert(t, incoming).facts, i))

LEMMA PutIs ==
  ASSUME NEW t, NEW incoming, NEW gone, NEW i
  PROVE  /\ \A k \in DOMAIN Put(t, incoming, gone, i).facts :
              \/ k \in DOMAIN incoming /\ Put(t, incoming, gone, i).facts[k] = Merged(t, k, incoming[k])
              \/ /\ k \in DOMAIN t.facts /\ k \notin DOMAIN incoming
                 /\ Put(t, incoming, gone, i).facts[k] = t.facts[k]
         /\ \A k \in DOMAIN t.facts :
              k \notin DOMAIN incoming /\ t.facts[k].issuer # i =>
                k \in DOMAIN Put(t, incoming, gone, i).facts
<1> DEFINE new == [k \in DOMAIN incoming |-> Merged(t, k, incoming[k])]
           u == Over(new, t.facts)
           keys == gone \cap KeysOf(u, i)
           w == [k \in DOMAIN u \ keys |-> u[k]]
<1>1. Upsert(t, incoming).facts = u
  BY DEF Upsert
<1>2. Put(t, incoming, gone, i).facts = w
  <2>1. Put(t, incoming, gone, i) = Delete(Upsert(t, incoming), keys)
    BY <1>1 DEF Put
  <2>2. Delete(Upsert(t, incoming), keys).facts = Restrict(Upsert(t, incoming).facts, DOMAIN Upsert(t, incoming).facts \ keys)
    BY DEF Delete
  <2> HIDE DEF u, keys
  <2> QED BY <1>1, <2>1, <2>2 DEF Restrict
<1>3. \A k \in DOMAIN u : \/ k \in DOMAIN incoming /\ u[k] = Merged(t, k, incoming[k])
                          \/ k \in DOMAIN t.facts /\ k \notin DOMAIN incoming /\ u[k] = t.facts[k]
  BY DEF Over
<1>4. \A k \in DOMAIN t.facts : k \in DOMAIN u /\ (k \notin DOMAIN incoming => u[k] = t.facts[k])
  BY DEF Over
<1>5. \A k \in keys : u[k].issuer = i
  BY DEF KeysOf
<1> HIDE DEF u, keys
<1>6. \A k \in DOMAIN w : k \in DOMAIN u /\ w[k] = u[k]
  OBVIOUS
<1>7. \A k \in DOMAIN u : k \notin keys => k \in DOMAIN w
  OBVIOUS
<1> HIDE DEF w
<1> QED BY <1>2, <1>3, <1>4, <1>5, <1>6, <1>7

LEMMA PutLogged ==
  ASSUME NEW t, Logged(t), NEW incoming, NEW gone, NEW i
  PROVE  /\ Logged(Put(t, incoming, gone, i))
         /\ Longer(t.versions, Put(t, incoming, gone, i).versions)
<1>1. PICK u : u = Upsert(t, incoming)
  OBVIOUS
<1>2. PICK keys : keys = gone \cap KeysOf(u.facts, i)
  OBVIOUS
<1>3. PICK w : w = Put(t, incoming, gone, i) /\ w = Delete(u, keys)
  BY <1>1, <1>2 DEF Put
<1>4. Logged(u) /\ Longer(t.versions, u.versions)
  BY <1>1, UpsertLogged
<1>5. Logged(w) /\ Longer(u.versions, w.versions)
  BY <1>3, <1>4, DeleteLogged
<1>6. Longer(t.versions, w.versions)
  BY <1>4, <1>5, LongerTrans DEF Logged
<1> QED BY <1>3, <1>5, <1>6

Changed(source, target) ==
  {k \in DOMAIN target : k \notin DOMAIN source \/ Economics(source[k]) # Economics(target[k])}
OthersOf(t, i) == {k \in DOMAIN t.facts : t.facts[k].issuer \notin {i, NoIssuer}}
IncomingOf(n, i, r, source, target) ==
  [k \in Changed(source, target) |->
     Stored(i, NoSecurity, Run("activation", n), r, plans[n].target, target[k])]

LEMMA ReplacedIs ==
  ASSUME NEW t, t = [facts |-> t.facts, versions |-> t.versions, ok |-> t.ok],
         NEW n, NEW i, NEW r, NEW parsed, NEW source, NEW target,
         NEW q, q = Replaced(t, n, i, r, parsed, source, target)
  PROVE  /\ q = [facts |-> q.facts, versions |-> q.versions, ok |-> q.ok]
         /\ q.ok =>
              LET w == Put(t, IncomingOf(n, i, r, source, target), DOMAIN source \ DOMAIN target, i) IN
              /\ Changed(source, target) \cap OthersOf(t, i) = {}
              /\ q.facts = w.facts /\ q.versions = w.versions /\ t.ok
              /\ parsed.rows = plans[n].after[i] /\ LiveRelation(w.facts, i) = Relation(parsed.rows)
<1> DEFINE gone == DOMAIN source \ DOMAIN target
           w == Put(t, IncomingOf(n, i, r, source, target), gone, i)
<1>1. q = IF (Changed(source, target) \cup gone) \cap OthersOf(t, i) # {} THEN [t EXCEPT !.ok = FALSE]
          ELSE Concluded(t, n, i, parsed, gone, Upsert(t, IncomingOf(n, i, r, source, target)))
  BY DEF Replaced, Changed, OthersOf, IncomingOf
<1>2. CASE (Changed(source, target) \cup gone) \cap OthersOf(t, i) # {}
  <2>1. q = [t EXCEPT !.ok = FALSE]
    BY <1>1, <1>2
  <2>2. q = [facts |-> t.facts, versions |-> t.versions, ok |-> FALSE]
    BY <2>1
  <2> QED BY <2>2
<1>3. CASE (Changed(source, target) \cup gone) \cap OthersOf(t, i) = {}
  <2>1. q = Concluded(t, n, i, parsed, gone, Upsert(t, IncomingOf(n, i, r, source, target)))
    BY <1>1, <1>3
  <2>2. q = Verified(t, n, i, parsed, w)
    BY <2>1 DEF Concluded, Put
  <2> HIDE DEF w, gone
  <2>3. q = [facts |-> w.facts, versions |-> w.versions,
             ok |-> /\ t.ok /\ parsed.ok /\ parsed.rows = plans[n].after[i]
                    /\ LiveRelation(w.facts, i) = Relation(parsed.rows)]
    BY <2>2 DEF Verified
  <2>4. q.ok => /\ t.ok /\ parsed.ok /\ parsed.rows = plans[n].after[i]
                /\ LiveRelation(w.facts, i) = Relation(parsed.rows)
    <3> DEFINE good == /\ t.ok /\ parsed.ok /\ parsed.rows = plans[n].after[i]
                       /\ LiveRelation(w.facts, i) = Relation(parsed.rows)
    <3>1. q = [facts |-> w.facts, versions |-> w.versions, ok |-> good]
      BY <2>3
    <3> HIDE DEF good
    <3>2. q.ok = good
      BY <3>1
    <3> QED BY <3>2, Zenon DEF good
  <2>5. q.facts = w.facts /\ q.versions = w.versions
    BY <2>3
  <2>6. q = [facts |-> q.facts, versions |-> q.versions, ok |-> q.ok]
    BY <2>3, Zenon
  <2>7. Changed(source, target) \cap OthersOf(t, i) = {}
    BY <1>3
  <2> QED BY <2>4, <2>5, <2>6, <2>7, Zenon DEF w, gone
<1> QED BY <1>2, <1>3
LEMMA MovedDone ==
  ASSUME RunsKept, PlansKept, NEW n \in DOMAIN plans, NEW i \in plans[n].issuers,
         NEW y \in SUBSET Issuers, NEW t, Done(y, t, n), IsList(versions)
  PROVE  Done(y \cup {i}, Advanced(t, n, i), n)
<1>1. PICK r : /\ r = Newest(i, plans[n].asof)
               /\ r \in DOMAIN runs /\ runs[r].issuer = i /\ i \in Issuers
  BY NewestIs
<1>2. plans[n].target \in Parsers
  BY DEF PlansKept, PlanKept, Parsers
<1>3. PICK rows : rows = Replay(plans[n].target, r).rows
  OBVIOUS
<1>4. PICK source, target : /\ source = ByKey(i, Replay(Source(plans[n].target), r).rows)
                            /\ target = ByKey(i, rows)
  OBVIOUS
<1>5. PICK q : q = Advanced(t, n, i)
  OBVIOUS
<1>6. PICK incoming, gone : /\ incoming = IncomingOf(n, i, r, source, target)
                            /\ gone = DOMAIN source \ DOMAIN target
  OBVIOUS
<1>7. PICK w : w = Put(t, incoming, gone, i)
  OBVIOUS
<1>8. q = Replaced(t, n, i, r, Replay(plans[n].target, r), source, target)
  BY <1>1, <1>3, <1>4, <1>5 DEF Advanced, Activated, ReplacedBy
<1>9. t = [facts |-> t.facts, versions |-> t.versions, ok |-> t.ok]
  BY DEF Done
<1>10. /\ q = [facts |-> q.facts, versions |-> q.versions, ok |-> q.ok]
       /\ q.ok => /\ Changed(source, target) \cap OthersOf(t, i) = {}
                  /\ q.facts = w.facts /\ q.versions = w.versions /\ t.ok
                  /\ rows = plans[n].after[i] /\ LiveRelation(w.facts, i) = Relation(rows)
  BY <1>3, <1>6, <1>7, <1>8, <1>9, ReplacedIs
<1>11. ASSUME q.ok
       PROVE  /\ Logged(q) /\ Longer(versions, q.versions)
              /\ \A k \in DOMAIN q.facts : RowKept(k, q.facts[k])
              /\ \A j \in y \cup {i} : LiveRelation(q.facts, j) = Relation(plans[n].after[j])
              /\ \A k \in DOMAIN facts : facts[k].issuer \notin y \cup {i, NoIssuer} =>
                                           k \in DOMAIN q.facts /\ q.facts[k] = facts[k]
              /\ \A k \in DOMAIN q.facts : q.facts[k].issuer \notin y \cup {i, NoIssuer} =>
                                             k \in DOMAIN facts /\ q.facts[k] = facts[k]
  <2>1. /\ Changed(source, target) \cap OthersOf(t, i) = {}
        /\ q.facts = w.facts /\ q.versions = w.versions /\ t.ok
        /\ rows = plans[n].after[i] /\ LiveRelation(w.facts, i) = Relation(rows)
    BY <1>10, <1>11
  <2>2. /\ Logged(t) /\ Longer(versions, t.versions)
        /\ \A k \in DOMAIN t.facts : RowKept(k, t.facts[k])
        /\ \A j \in y : LiveRelation(t.facts, j) = Relation(plans[n].after[j])
        /\ \A k \in DOMAIN facts : facts[k].issuer \notin y \cup {NoIssuer} =>
                                     k \in DOMAIN t.facts /\ t.facts[k] = facts[k]
        /\ \A k \in DOMAIN t.facts : t.facts[k].issuer \notin y \cup {NoIssuer} =>
                                       k \in DOMAIN facts /\ t.facts[k] = facts[k]
    BY <2>1 DEF Done
  <2>3. Logged(w) /\ Longer(versions, w.versions)
    <3>1. Logged(w) /\ Longer(t.versions, w.versions)
      BY <1>7, <2>2, PutLogged
    <3> QED BY <2>2, <3>1, LongerTrans DEF Logged
  <2>4. Logged(q)
    BY <2>1, <2>3 DEF Logged
  <2>5. DOMAIN incoming = Changed(source, target)
    BY <1>6 DEF IncomingOf
  <2>6. /\ \A k \in DOMAIN w.facts :
             \/ k \in DOMAIN incoming /\ w.facts[k] = Merged(t, k, incoming[k])
             \/ k \in DOMAIN t.facts /\ k \notin DOMAIN incoming /\ w.facts[k] = t.facts[k]
        /\ \A k \in DOMAIN t.facts :
             k \notin DOMAIN incoming /\ t.facts[k].issuer # i => k \in DOMAIN w.facts
    BY <1>7, PutIs
  <2>7. ASSUME NEW k \in DOMAIN incoming
        PROVE  LET m == Merged(t, k, incoming[k]) IN
               /\ m.issuer = i /\ m.snapshot = r /\ m.parser = plans[n].target
               /\ m.row \in rows /\ Key(i, m.row) = k
    <3>1. incoming[k] = Stored(i, NoSecurity, Run("activation", n), r, plans[n].target, target[k])
      BY <1>6, <2>5 DEF IncomingOf
    <3>2. k \in DOMAIN target
      BY <2>5 DEF Changed
    <3>3. target[k] \in rows /\ Key(i, target[k]) = k
      BY <1>4, <3>2, ByKeyIs
    <3> QED BY <3>1, <3>3, MergedIs
  <2>8. ASSUME NEW k \in DOMAIN incoming PROVE RowKept(k, Merged(t, k, incoming[k]))
    <3>1. PICK m : m = Merged(t, k, incoming[k])
      OBVIOUS
    <3>2. m.issuer = i /\ m.snapshot = r /\ m.parser = plans[n].target /\ m.row \in rows /\ Key(i, m.row) = k
      BY <2>7, <3>1
    <3>3. k = <<Ticker[i], m.row.end, m.row.filed, m.row.metric>>
      BY <3>2 DEF Key
    <3>4. k = <<k[1], m.row.end, m.row.filed, m.row.metric>> /\ k[1] = Ticker[i]
      BY <3>3
    <3>5. m.row \in Parsed[m.issuer][runs[m.snapshot].response][m.parser].rows
      BY <1>1, <1>3, <3>2, Zenon DEF Replay
    <3> QED BY <1>1, <1>2, <3>1, <3>2, <3>4, <3>5 DEF RowKept
  <2>9. \A k \in DOMAIN w.facts : RowKept(k, w.facts[k])
    BY <2>2, <2>6, <2>8
  <2>10. \A k \in DOMAIN incoming : k \notin OthersOf(t, i)
    BY <2>1, <2>5
  <2>11. ASSUME NEW k \in DOMAIN t.facts, t.facts[k].issuer \notin {i, NoIssuer}
         PROVE  k \in DOMAIN w.facts /\ w.facts[k] = t.facts[k]
    <3>1. k \notin DOMAIN incoming
      BY <2>10, <2>11 DEF OthersOf
    <3> QED BY <2>6, <2>11, <3>1
  <2>12. ASSUME NEW k \in DOMAIN w.facts, w.facts[k].issuer # i
         PROVE  k \in DOMAIN t.facts /\ w.facts[k] = t.facts[k]
    BY <2>6, <2>7, <2>12
  <2>13. ASSUME NEW j \in y, j # i, j # NoIssuer PROVE LiveRelation(w.facts, j) = LiveRelation(t.facts, j)
    BY <2>11, <2>12, <2>13, LiveSame
  <2> HIDE DEF Done
  <2>14. \A j \in y \cup {i} : j # NoIssuer => LiveRelation(q.facts, j) = Relation(plans[n].after[j])
    BY <2>1, <2>2, <2>13
  <2>15. \A k \in DOMAIN facts : facts[k].issuer \notin y \cup {i, NoIssuer} =>
                                   k \in DOMAIN q.facts /\ q.facts[k] = facts[k]
    BY <2>1, <2>2, <2>11
  <2>16. \A k \in DOMAIN q.facts : q.facts[k].issuer \notin y \cup {i, NoIssuer} =>
                                     k \in DOMAIN facts /\ q.facts[k] = facts[k]
    BY <2>1, <2>2, <2>12
  <2> QED BY <1>1, <2>1, <2>3, <2>4, <2>9, <2>14, <2>15, <2>16, FactsAssumption
<1>12. (y \cup {i}) \cup {NoIssuer} = y \cup {i, NoIssuer}
  OBVIOUS
<1> QED BY <1>5, <1>10, <1>11, <1>12 DEF Done

LEMMA TransactionDone ==
  ASSUME RunsKept, PlansKept, RowsKept, LogKept, NEW n \in DOMAIN plans
  PROVE  Done(plans[n].issuers, Transaction(facts, n), n)
<1> DEFINE S == plans[n].issuers
           b == [facts |-> facts, versions |-> versions, ok |-> TRUE]
<1>1. S \in SUBSET Issuers /\ IsFiniteSet(S)
  <2>1. S \in SUBSET Issuers
    BY DEF PlansKept, PlanKept
  <2> QED BY <2>1, FactsAssumption, FS_Subset
<1>2. PICK f : IsTransaction(f, S, n, b) /\ Transaction(facts, n) = f[S]
  BY <1>1, TransactionIs
<1>3. ASSUME NEW x \in SUBSET S
      PROVE  f[x] = IF x = {} THEN b ELSE Advanced(f[x \ {OneOf(x)}], n, OneOf(x))
  BY <1>2 DEF IsTransaction
<1>4. Done({}, b, n)
  <2>1. b.facts = facts /\ b.versions = versions /\ b.ok
    OBVIOUS
  <2>2. b = [facts |-> b.facts, versions |-> b.versions, ok |-> b.ok]
    OBVIOUS
  <2>3. Longer(versions, versions)
    BY ListIs DEF LogKept, Longer
  <2> HIDE DEF b
  <2>4. Logged(b)
    BY <2>1 DEF Logged, LogKept
  <2> QED BY <2>1, <2>2, <2>3, <2>4 DEF Done, RowsKept
<1> HIDE DEF b
<1> DEFINE T == {k \in Nat : \A x \in SUBSET S : Cardinality(x) <= k => Done(x, f[x], n)}
<1>5. ASSUME NEW x \in SUBSET S, x = {} PROVE Done(x, f[x], n)
  BY <1>3, <1>4, <1>5
<1>6. 0 \in T
  <2>1. ASSUME NEW x \in SUBSET S, Cardinality(x) <= 0 PROVE x = {}
    <3>1. IsFiniteSet(x)
      BY <1>1, FS_Subset
    <3>2. Cardinality(x) \in Nat /\ (Cardinality(x) = 0 <=> x = {})
      BY <3>1, FS_CardinalityType, FS_EmptySet
    <3> QED BY <2>1, <3>2
  <2> QED BY <1>5, <2>1
<1>7. ASSUME NEW k \in Nat, k \in T, NEW x \in SUBSET S, Cardinality(x) <= k + 1
      PROVE  Done(x, f[x], n)
  <2>1. CASE x = {}
    BY <1>5, <2>1
  <2>2. CASE x # {}
    <3>1. PICK i, y : i = OneOf(x) /\ y = x \ {OneOf(x)}
      OBVIOUS
    <3>2. /\ i \in x /\ y \in SUBSET S
          /\ Cardinality(x) \in Nat /\ Cardinality(y) = Cardinality(x) - 1
      BY <1>1, <2>2, <3>1, Smaller
    <3>3. Cardinality(y) <= k
      BY <1>7, <3>2
    <3>4. Done(y, f[y], n)
      BY <1>7, <3>2, <3>3
    <3>5. f[x] = Advanced(f[y], n, i)
      BY <1>3, <2>2, <3>1
    <3>6. i \in plans[n].issuers /\ y \in SUBSET Issuers /\ IsList(versions)
      BY <1>1, <3>2 DEF LogKept
    <3>7. Done(y \cup {i}, Advanced(f[y], n, i), n)
      BY <3>4, <3>6, MovedDone
    <3>8. y \cup {i} = x
      BY <3>1, <3>2
    <3> QED BY <3>5, <3>7, <3>8
  <2> QED BY <2>1, <2>2
<1>8. T = Nat
  <2>1. T \in SUBSET Nat /\ \A k \in Nat : k \in T => k + 1 \in T
    BY <1>7
  <2> HIDE DEF T
  <2> QED BY <1>6, <2>1, Smallest
<1>9. Cardinality(S) \in T
  BY <1>1, <1>8, FS_CardinalityType
<1>10. \A x \in SUBSET S : Cardinality(x) <= Cardinality(S) => Done(x, f[x], n)
  BY <1>9
<1>11. Cardinality(S) <= Cardinality(S)
  BY <1>1, FS_CardinalityType
<1> HIDE DEF T
<1> QED BY <1>2, <1>10, <1>11
-----------------------------------------------------------------------------
(* The steps.                                                               *)

LEMMA ListExcept ==
  ASSUME NEW s, IsList(s), NEW i \in DOMAIN s, NEW x
  PROVE  /\ IsList([s EXCEPT ![i] = x]) /\ Len([s EXCEPT ![i] = x]) = Len(s)
         /\ DOMAIN [s EXCEPT ![i] = x] = DOMAIN s
         /\ [s EXCEPT ![i] = x][i] = x
         /\ \A j \in DOMAIN s : j # i => [s EXCEPT ![i] = x][j] = s[j]
<1> DEFINE S == {s[j] : j \in DOMAIN s} \cup {x}
           t == [s EXCEPT ![i] = x]
<1>1. s \in Seq(S) /\ DOMAIN s = 1..Len(s) /\ Len(s) \in Nat
  BY DEF IsList
<1>2. s = [j \in 1..Len(s) |-> s[j]]
  BY <1>1
<1>3. DOMAIN t = 1..Len(s) /\ t[i] = x /\ \A j \in DOMAIN s : j # i => t[j] = s[j]
  BY <1>1, <1>2
<1> DEFINE V == {t[j] : j \in DOMAIN t}
<1>4. t \in [1..Len(s) -> V]
  BY <1>1, <1>3
<1>5. t \in Seq(V) /\ Len(t) = Len(s)
  <2> HIDE DEF t, V
  <2> QED BY <1>1, <1>3, <1>4
<1> QED BY <1>1, <1>3, <1>5 DEF IsList

(* A run keeps its response, and what was parsed or recorded of it.        *)
Later ==
  \A r \in DOMAIN runs :
    /\ r \in DOMAIN runs' /\ runs'[r].issuer = runs[r].issuer
    /\ runs'[r].response = runs[r].response /\ runs'[r].day = runs[r].day
    /\ runs[r].parsed => runs'[r].parsed
    /\ runs[r].outcome # "none" => runs'[r].outcome # "none"

LEMMA RunsGrow ==
  ASSUME Later
  PROVE  /\ \A k, s : RowKept(k, s) => RowKept(k, s)'
         /\ \A rel, i : WholeOf(rel, i) => WholeOf(rel, i)'
         /\ \A p : PlanKept(p) => PlanKept(p)'
<1>1. ASSUME NEW k, NEW s, RowKept(k, s) PROVE RowKept(k, s)'
  BY <1>1 DEF RowKept, Later
<1>2. ASSUME NEW rel, NEW i, WholeOf(rel, i) PROVE WholeOf(rel, i)'
  BY <1>2 DEF WholeOf, Later
<1>3. ASSUME NEW p, PlanKept(p) PROVE PlanKept(p)'
  <2>1. \A i, d : Observed(i, d) \subseteq Observed(i, d)'
    BY DEF Observed, Later
  <2>2. \A i, d : \A r \in Observed(i, d) : r \in DOMAIN runs
    BY DEF Observed
  <2> QED BY <1>3, <2>1, <2>2 DEF PlanKept, Later
<1> QED BY <1>1, <1>2, <1>3

LEMMA LogStep ==
  ASSUME LogKept, NEW t, Logged(t), Longer(versions, t.versions),
         facts' = t.facts, versions' = t.versions, generations' = generations
  PROVE  LogKept'
<1>1. IsList(versions) /\ IsList(t.versions)
  BY DEF LogKept, Logged
<1>2. ASSUME NEW g \in DOMAIN generations
      PROVE  /\ generations[g].boundary \in 0..Len(t.versions)
             /\ AsRead(t.versions, generations[g].boundary) = generations[g].seen
  BY <1>1, LongerReads DEF LogKept
<1> QED BY <1>1, <1>2 DEF LogKept, Logged

(* A step that leaves the table, its log and the plans alone.              *)
LEMMA RunsStep ==
  ASSUME FactsIInv, RunsKept', Later, UNCHANGED <<facts, versions, generations, plans, accepted>>,
         checked' \in 0..Len(plans), faults' \in 0..MaxFaults
  PROVE  FactsIInv'
<1>1. RowsKept'
  BY RunsGrow DEF FactsIInv, RowsKept
<1>2. LogKept'
  BY DEF FactsIInv, LogKept
<1>3. PlansKept'
  BY RunsGrow DEF FactsIInv, PlansKept
<1>4. (\A i \in Issuers : WholeOf(facts, i))'
  <2> SUFFICES ASSUME NEW i \in Issuers PROVE WholeOf(facts, i)'
    OBVIOUS
  <2>1. PICK rel : rel = facts
    OBVIOUS
  <2>2. WholeOf(rel, i)
    BY <2>1 DEF FactsIInv
  <2>3. WholeOf(rel, i)'
    BY <2>2, RunsGrow
  <2>4. facts' = rel
    BY <2>1
  <2> QED BY <2>3, <2>4 DEF WholeOf, LiveRelation, KeysOf
<1> QED BY <1>1, <1>2, <1>3, <1>4 DEF FactsIInv

LEMMA SameRuns ==
  ASSUME runs' = runs
  PROVE  Later
  BY DEF Later

LEMMA CaptureStep ==
  ASSUME FactsIInv, NEW i \in Issuers, NEW n \in DOMAIN Feed[i], Capture(i, n)
  PROVE  FactsIInv'
<1>1. PICK o : o = Observation(i, n)
  OBVIOUS
<1>2. o = [issuer |-> i, response |-> n, day |-> day, parsed |-> FALSE, outcome |-> "none"]
  BY <1>1 DEF Observation, NoRun
<1>3. day \in Nat /\ day \in 1..LastDay
  BY FactsAssumption DEF FactsIInv, RunsKept
<1>4. o \in RunOf(i)
  BY <1>2, <1>3 DEF RunOf
<1>5. runs' = Append(runs, o) /\ ingest' = Len(runs) + 1 /\ IsList(runs) /\ day' = day
  BY <1>1 DEF Capture, FactsIInv, RunsKept
<1>6. /\ IsList(runs') /\ Len(runs') = Len(runs) + 1 /\ DOMAIN runs' = 1..Len(runs) + 1
      /\ (\A r \in DOMAIN runs : runs'[r] = runs[r]) /\ runs'[Len(runs) + 1] = o
      /\ DOMAIN runs = 1..Len(runs) /\ Len(runs) \in Nat
  BY <1>5, ListAppend, ListIs
<1>7. RunsKept'
  <2>1. \A r \in DOMAIN runs' : r \in DOMAIN runs \/ r = Len(runs) + 1
    BY <1>6
  <2>2. \A r \in DOMAIN runs' : \E j \in Issuers : runs'[r] \in RunOf(j)
    BY <1>4, <1>6, <2>1 DEF FactsIInv, RunsKept
  <2>3. ingest' \in 0..Len(runs')
    BY <1>5, <1>6
  <2> QED BY <1>3, <1>5, <1>6, <2>2, <2>3 DEF RunsKept, RunOf
<1>8. Later
  BY <1>6 DEF Later
<1> QED BY <1>7, <1>8, RunsStep DEF Capture, FactsIInv, PlansKept

(* One run is changed, in what was parsed or recorded of it.               *)
LEMMA RunsPut ==
  ASSUME RunsKept, NEW r \in DOMAIN runs, NEW x,
         x.issuer = runs[r].issuer, \A i \in Issuers : runs[r] \in RunOf(i) => x \in RunOf(i),
         x.response = runs[r].response, x.day = runs[r].day, runs[r].parsed => x.parsed,
         runs[r].outcome # "none" => x.outcome # "none",
         runs' = [runs EXCEPT ![r] = x], day' = day, ingest' \in 0..Len(runs)
  PROVE  RunsKept' /\ Later
<1>1. /\ IsList(runs') /\ Len(runs') = Len(runs) /\ DOMAIN runs' = DOMAIN runs
      /\ runs'[r] = x /\ \A j \in DOMAIN runs : j # r => runs'[j] = runs[j]
  BY ListExcept DEF RunsKept
<1>2. Later
  BY <1>1 DEF Later
<1>3. \A q \in DOMAIN runs' : \E i \in Issuers : runs'[q] \in RunOf(i)
  <2> SUFFICES ASSUME NEW q \in DOMAIN runs PROVE \E i \in Issuers : runs'[q] \in RunOf(i)
    BY <1>1
  <2>1. PICK i \in Issuers : runs[q] \in RunOf(i)
    BY DEF RunsKept
  <2>2. runs'[q] \in RunOf(i)
    BY <1>1, <2>1
  <2> QED BY <2>2
<1> QED BY <1>1, <1>2, <1>3 DEF RunsKept, RunOf

LEMMA RunIs ==
  ASSUME RunsKept, NEW r \in DOMAIN runs
  PROVE  /\ runs[r] \in RunOf(runs[r].issuer) /\ runs[r].issuer \in Issuers
         /\ \A i \in Issuers : runs[r] \in RunOf(i) => i = runs[r].issuer
BY DEF RunsKept, RunOf

LEMMA AttachStep ==
  ASSUME FactsIInv, Attach
  PROVE  FactsIInv'
<1>1. PICK x : x = [runs[ingest] EXCEPT !.parsed = TRUE]
  OBVIOUS
<1>2. ingest \in DOMAIN runs /\ RunsKept /\ ingest \in 0..Len(runs)
  BY ListIs DEF FactsIInv, RunsKept, Attach, Free
<1>3. runs' = [runs EXCEPT ![ingest] = x]
  BY <1>1 DEF Attach
<1>4. /\ x.issuer = runs[ingest].issuer /\ x.response = runs[ingest].response
      /\ x.day = runs[ingest].day /\ x.parsed /\ x.outcome = runs[ingest].outcome
      /\ \A i \in Issuers : runs[ingest] \in RunOf(i) => x \in RunOf(i)
  BY <1>1, <1>2, RunIs DEF RunOf
<1>5. RunsKept' /\ Later
  BY <1>2, <1>3, <1>4, RunsPut DEF Attach
<1> QED BY <1>5, RunsStep DEF Attach, FactsIInv, PlansKept

LEMMA RecordedIs ==
  ASSUME RunsKept, NEW o \in {"success", "warning", "failed"}, Recorded(o), ingest # 0,
         ingest' = 0, day' = day
  PROVE  RunsKept' /\ Later /\ ingest \in DOMAIN runs
<1>1. PICK x : x = [runs[ingest] EXCEPT !.outcome = o]
  OBVIOUS
<1>2. ingest \in DOMAIN runs /\ 0 \in 0..Len(runs)
  BY ListIs DEF RunsKept
<1>3. runs' = [runs EXCEPT ![ingest] = x]
  BY <1>1 DEF Recorded
<1>4. /\ x.issuer = runs[ingest].issuer /\ x.response = runs[ingest].response
      /\ x.day = runs[ingest].day /\ x.parsed = runs[ingest].parsed /\ x.outcome # "none"
      /\ \A i \in Issuers : runs[ingest] \in RunOf(i) => x \in RunOf(i)
  BY <1>1, <1>2, RunIs DEF RunOf
<1> QED BY <1>2, <1>3, <1>4, RunsPut

LEMMA FailStep ==
  ASSUME FactsIInv, FailIngest
  PROVE  FactsIInv'
<1>1. RunsKept' /\ Later
  BY RecordedIs DEF FailIngest, Free, FactsIInv
<1>2. faults' \in 0..MaxFaults
  BY FactsAssumption DEF FailIngest, FactsIInv
<1> QED BY <1>1, <1>2, RunsStep DEF FailIngest, FactsIInv, PlansKept

LEMMA CrashStep ==
  ASSUME FactsIInv, ProcessCrash
  PROVE  FactsIInv'
<1>1. RunsKept'
  BY ListIs DEF ProcessCrash, FactsIInv, RunsKept, RunOf
<1>2. faults' \in 0..MaxFaults /\ checked' \in 0..Len(plans)
  BY FactsAssumption, ListIs DEF ProcessCrash, FactsIInv, PlansKept
<1>3. Later
  BY SameRuns DEF ProcessCrash
<1> QED BY <1>1, <1>2, <1>3, RunsStep DEF ProcessCrash

LEMMA NextDayStep ==
  ASSUME FactsIInv, NextDay
  PROVE  FactsIInv'
<1>1. RunsKept'
  BY FactsAssumption DEF NextDay, FactsIInv, RunsKept, RunOf
<1>2. Later
  BY SameRuns DEF NextDay
<1> QED BY <1>1, <1>2, RunsStep DEF NextDay, FactsIInv, PlansKept

LEMMA CheckStep ==
  ASSUME FactsIInv, NEW n \in DOMAIN plans, Check(n)
  PROVE  FactsIInv'
<1>1. RunsKept' /\ Later
  BY SameRuns DEF Check, FactsIInv, RunsKept, RunOf
<1>2. checked' \in 0..Len(plans)
  BY ListIs DEF Check, FactsIInv, PlansKept
<1> QED BY <1>1, <1>2, RunsStep DEF Check, FactsIInv
LEMMA TableLogged ==
  ASSUME LogKept
  PROVE  Logged(Table) /\ Table.facts = facts /\ Table.versions = versions
BY DEF LogKept, Logged, Table

LEMMA RunsSame ==
  ASSUME RunsKept, UNCHANGED <<day, runs, ingest>>
  PROVE  RunsKept'
  BY DEF RunsKept, RunOf

LEMMA PlansSame ==
  ASSUME PlansKept, UNCHANGED <<runs, plans, accepted, checked>>
  PROVE  PlansKept'
<1>1. \A p : PlanKept(p) => PlanKept(p)'
  BY SameRuns, RunsGrow
<1> QED BY <1>1 DEF PlansKept

LEMMA WholeSame ==
  ASSUME \A i \in Issuers : WholeOf(facts, i), UNCHANGED <<runs, facts>>
  PROVE  (\A i \in Issuers : WholeOf(facts, i))'
  BY DEF WholeOf, LiveRelation, KeysOf

LEMMA DeleteStep ==
  ASSUME FactsIInv, NEW keys, \A k \in keys \cap DOMAIN facts : facts[k].issuer = NoIssuer,
         Write(Delete(Table, keys)),
         UNCHANGED <<day, runs, generations, plans, accepted, ingest, faults, checked>>
  PROVE  FactsIInv'
<1>1. PICK t : t = Delete(Table, keys)
  OBVIOUS
<1>2. Logged(Table) /\ Table.facts = facts /\ Table.versions = versions
  BY TableLogged DEF FactsIInv
<1>3. Logged(t) /\ Longer(versions, t.versions)
  BY <1>1, <1>2, DeleteLogged
<1>4. facts' = t.facts /\ versions' = t.versions
  BY <1>1 DEF Write
<1>5. LogKept'
  BY <1>3, <1>4, LogStep DEF FactsIInv
<1>6. t.facts = [k \in DOMAIN facts \ keys |-> facts[k]]
  BY <1>1, <1>2 DEF Delete, Restrict
<1>7. Later
  BY SameRuns
<1>8. RowsKept'
  <2>1. \A k \in DOMAIN t.facts : RowKept(k, t.facts[k])
    BY <1>6 DEF FactsIInv, RowsKept
  <2> QED BY <1>4, <1>7, <2>1, RunsGrow DEF RowsKept
<1>9. (\A i \in Issuers : WholeOf(facts, i))'
  <2> SUFFICES ASSUME NEW i \in Issuers PROVE WholeOf(facts, i)'
    OBVIOUS
  <2>1. PICK old, new : old = facts /\ new = t.facts
    OBVIOUS
  <2>2. WholeOf(old, i)
    BY <2>1 DEF FactsIInv
  <2>3. /\ \A k \in DOMAIN old : old[k].issuer = i => k \in DOMAIN new /\ new[k] = old[k]
        /\ \A k \in DOMAIN new : new[k].issuer = i => k \in DOMAIN old /\ new[k] = old[k]
    BY <1>6, <2>1, FactsAssumption
  <2>4. LiveRelation(new, i) = LiveRelation(old, i)
    BY <2>3, LiveSame
  <2>5. WholeOf(new, i)
    BY <2>2, <2>4 DEF WholeOf
  <2>6. WholeOf(new, i)'
    BY <1>7, <2>5, RunsGrow
  <2>7. facts' = new
    BY <1>4, <2>1
  <2> QED BY <2>6, <2>7 DEF WholeOf, LiveRelation, KeysOf
<1>10. RunsKept' /\ PlansKept'
  BY RunsSame, PlansSame DEF FactsIInv
<1> QED BY <1>5, <1>8, <1>9, <1>10 DEF FactsIInv

(* A row of a reviewed issuer was parsed, so it is never repaired away.    *)
LEMMA ReviewedRows ==
  ASSUME FactsIInv, NEW k \in DOMAIN facts, facts[k].issuer # NoIssuer
  PROVE  k[4] # "ebitda" /\ k[2] <= k[3]
<1>1. PICK s : s = facts[k]
  OBVIOUS
<1>2. RowKept(k, s) /\ s.issuer # NoIssuer
  BY <1>1 DEF FactsIInv, RowsKept
<1>3. /\ s.issuer \in Issuers /\ s.parser \in Parsers /\ s.snapshot \in DOMAIN runs
      /\ runs[s.snapshot].issuer = s.issuer
      /\ s.row \in Parsed[s.issuer][runs[s.snapshot].response][s.parser].rows
  BY <1>2 DEF RowKept
<1>4. runs[s.snapshot].response \in DOMAIN Feed[s.issuer]
  BY <1>3, RunIs DEF RunOf, FactsIInv
<1>5. s.row.metric \in Metrics /\ s.row.end <= s.row.filed
  BY <1>3, <1>4, ParsedIs
<1>6. k = <<k[1], s.row.end, s.row.filed, s.row.metric>>
  BY <1>2 DEF RowKept
<1>7. k[2] = s.row.end /\ k[3] = s.row.filed /\ k[4] = s.row.metric
  BY <1>6
<1> QED BY <1>5, <1>7 DEF Metrics

LEMMA RepairStep ==
  ASSUME FactsIInv, PurgeEbitda \/ QuarantineInvalidPeriods
  PROVE  FactsIInv'
<1>1. CASE PurgeEbitda
  <2>1. PICK keys : keys = LegacyEbitda
    OBVIOUS
  <2>2. \A k \in keys \cap DOMAIN facts : facts[k].issuer = NoIssuer
    BY <2>1, ReviewedRows DEF LegacyEbitda
  <2>3. Write(Delete(Table, keys))
    BY <1>1, <2>1 DEF PurgeEbitda
  <2> QED BY <1>1, <2>2, <2>3, DeleteStep DEF PurgeEbitda
<1>2. CASE QuarantineInvalidPeriods
  <2>1. PICK keys : keys = InvalidPeriods
    OBVIOUS
  <2>2. \A k \in keys \cap DOMAIN facts : facts[k].issuer = NoIssuer
    BY <2>1, ReviewedRows DEF InvalidPeriods
  <2>3. Write(Delete(Table, keys))
    BY <1>2, <2>1 DEF QuarantineInvalidPeriods
  <2> QED BY <1>2, <2>2, <2>3, DeleteStep DEF QuarantineInvalidPeriods
<1> QED BY <1>1, <1>2

(* A generation is the whole log, and what is read of it.                  *)
LEMMA LogNamed ==
  ASSUME NEW t, Logged(t), NEW l, IsList(l),
         \A g \in DOMAIN l : /\ l[g].boundary \in 0..Len(t.versions)
                             /\ AsRead(t.versions, l[g].boundary) = l[g].seen
  PROVE  LET m == Append(l, Generation(t.facts, t.versions)) IN
         /\ IsList(m)
         /\ \A g \in DOMAIN m : /\ m[g].boundary \in 0..Len(t.versions)
                                /\ AsRead(t.versions, m[g].boundary) = m[g].seen
<1>1. PICK e : e = Generation(t.facts, t.versions)
  OBVIOUS
<1>2. e.boundary = Len(t.versions) /\ e.seen = t.facts
  BY <1>1 DEF Generation
<1>3. PICK m : m = Append(l, e)
  OBVIOUS
<1>4. /\ IsList(m) /\ DOMAIN m = 1..Len(l) + 1 /\ (\A g \in DOMAIN l : m[g] = l[g])
      /\ m[Len(l) + 1] = e /\ DOMAIN l = 1..Len(l) /\ Len(l) \in Nat
  BY <1>3, ListAppend, ListIs
<1>5. \A g \in DOMAIN m : g \in DOMAIN l \/ g = Len(l) + 1
  BY <1>4
<1>6. Len(t.versions) \in Nat
  BY ListIs DEF Logged
<1>7. \A g \in DOMAIN m : /\ m[g].boundary \in 0..Len(t.versions)
                          /\ AsRead(t.versions, m[g].boundary) = m[g].seen
  BY <1>2, <1>4, <1>5, <1>6 DEF Logged
<1> QED BY <1>1, <1>3, <1>4, <1>7

LEMMA GenerationStep ==
  ASSUME FactsIInv, CaptureGeneration
  PROVE  FactsIInv'
<1>1. Logged(Table) /\ Table.facts = facts /\ Table.versions = versions
  BY TableLogged DEF FactsIInv
<1>2. PICK t : t = Table
  OBVIOUS
<1>3. generations' = Append(generations, Generation(t.facts, t.versions))
  BY <1>1, <1>2 DEF CaptureGeneration
<1>4. /\ IsList(generations')
      /\ \A g \in DOMAIN generations' :
           /\ generations'[g].boundary \in 0..Len(versions)
           /\ AsRead(versions, generations'[g].boundary) = generations'[g].seen
  BY <1>1, <1>2, <1>3, LogNamed DEF FactsIInv, LogKept
<1>5. LogKept'
  BY <1>4 DEF LogKept, CaptureGeneration, FactsIInv
<1>6. Later
  BY SameRuns DEF CaptureGeneration
<1>7. RowsKept'
  BY <1>6, RunsGrow DEF CaptureGeneration, FactsIInv, RowsKept
<1>8. RunsKept' /\ PlansKept' /\ (\A i \in Issuers : WholeOf(facts, i))' /\ faults' = faults
  BY RunsSame, PlansSame, WholeSame DEF FactsIInv, CaptureGeneration
<1> QED BY <1>5, <1>7, <1>8 DEF FactsIInv

LEMMA PublishStep ==
  ASSUME FactsIInv, NEW scope \in SUBSET Issuers, NEW target \in {"v3", "v4"},
         \A i \in scope : Eligible(i, target, day), Publish(scope, target)
  PROVE  FactsIInv'
<1>1. PICK p : p = Plan(scope, target)
  OBVIOUS
<1>2. /\ p.issuers = scope /\ p.target = target /\ p.asof = day
      /\ p.review = Review(scope, target, day)
      /\ p.after = [i \in scope |-> Replay(target, Newest(i, day)).rows]
  BY <1>1 DEF Plan
<1>3. p.review.evidence = [i \in scope |-> Newest(i, day)]
  BY <1>2 DEF Review, ReviewV3, ReviewV4
<1>4. ASSUME NEW i \in scope
      PROVE  /\ Newest(i, day) \in Observed(i, day) /\ runs[Newest(i, day)].parsed
             /\ p.after[i] = Parsed[i][runs[Newest(i, day)].response][target].rows
  <2>1. Observed(i, day) # {} /\ Classify(i, Newest(i, day), target)
    BY <1>4 DEF Eligible
  <2>2. runs[Newest(i, day)].parsed
    BY <2>1 DEF Classify, Classified, ClassifiedV3, ClassifiedV4, Sound
  <2>3. DOMAIN runs = 1..Len(runs) /\ Len(runs) \in Nat
    BY ListIs DEF FactsIInv, RunsKept
  <2>4. Observed(i, day) \in SUBSET (0..Len(runs))
    BY <2>3 DEF Observed
  <2>5. Newest(i, day) \in Observed(i, day)
    <3> DEFINE O == Observed(i, day)
    <3>1. Newest(i, day) = Max(O)
      BY DEF Newest
    <3> HIDE DEF O
    <3> QED BY <2>1, <2>3, <2>4, <3>1, GreatestOf DEF O
  <2>6. runs[Newest(i, day)].issuer = i
    BY <2>5 DEF Observed
  <2> QED BY <1>2, <2>2, <2>5, <2>6 DEF Replay
<1>5. day \in Nat
  BY FactsAssumption DEF FactsIInv, RunsKept
<1>6. PlanKept(p)
  BY <1>2, <1>3, <1>4, <1>5 DEF PlanKept
<1>7. Later
  BY SameRuns DEF Publish
<1>8. PlansKept'
  <2>1. plans' = Append(plans, p) /\ IsList(plans)
    BY <1>1 DEF Publish, FactsIInv, PlansKept
  <2>2. /\ IsList(plans') /\ Len(plans') = Len(plans) + 1 /\ DOMAIN plans' = 1..Len(plans) + 1
        /\ (\A n \in DOMAIN plans : plans'[n] = plans[n]) /\ plans'[Len(plans) + 1] = p
        /\ DOMAIN plans = 1..Len(plans) /\ Len(plans) \in Nat
    BY <2>1, ListAppend, ListIs
  <2>3. \A n \in DOMAIN plans' : n \in DOMAIN plans \/ n = Len(plans) + 1
    BY <2>2
  <2>4. \A n \in DOMAIN plans' : PlanKept(plans'[n])
    BY <1>6, <2>2, <2>3 DEF FactsIInv, PlansKept
  <2>5. (\A n \in DOMAIN plans : PlanKept(plans[n]))'
    BY <1>7, <2>4, RunsGrow
  <2>6. accepted' \subseteq DOMAIN plans' /\ checked' \in 0..Len(plans')
    BY <2>2 DEF Publish, FactsIInv, PlansKept
  <2> QED BY <2>2, <2>5, <2>6 DEF PlansKept
<1>9. RowsKept'
  BY <1>7, RunsGrow DEF Publish, FactsIInv, RowsKept
<1>10. LogKept' /\ faults' = faults
  BY DEF Publish, FactsIInv, LogKept
<1>11. RunsKept' /\ (\A i \in Issuers : WholeOf(facts, i))'
  BY RunsSame, WholeSame DEF FactsIInv, Publish
<1> QED BY <1>8, <1>9, <1>10, <1>11 DEF FactsIInv
-----------------------------------------------------------------------------
(* The two writes of an issuer's relation.                                  *)

LEMMA UpsertIs ==
  ASSUME NEW t, NEW incoming
  PROVE  LET new == Upsert(t, incoming).facts IN
         /\ DOMAIN new = DOMAIN incoming \cup DOMAIN t.facts
         /\ \A k \in DOMAIN incoming : new[k] = Merged(t, k, incoming[k])
         /\ \A k \in DOMAIN t.facts \ DOMAIN incoming : new[k] = t.facts[k]
<1>1. Upsert(t, incoming).facts = Over([k \in DOMAIN incoming |-> Merged(t, k, incoming[k])], t.facts)
  BY DEF Upsert
<1> QED BY <1>1 DEF Over

LEMMA CommitStep ==
  ASSUME FactsIInv, Commit
  PROVE  FactsIInv'
<1>1. ingest \in DOMAIN runs /\ ingest # 0
  BY ListIs DEF FactsIInv, RunsKept, Commit, Free
<1>2. PICK o : o = Outcome(Replay("v2s2", ingest)) /\ o \in {"success", "warning", "failed"}
  BY DEF Outcome
<1>3. RunsKept' /\ Later
  BY <1>1, <1>2, RecordedIs DEF Commit, FactsIInv
<1>4. PICK i, parsed : i = runs[ingest].issuer /\ parsed = Replay("v2s2", ingest).rows
  OBVIOUS
<1>5. i \in Issuers /\ i # NoIssuer
  BY <1>1, <1>4, RunIs, FactsAssumption DEF FactsIInv
<1>6. PICK rows : /\ rows = Incoming(ingest) /\ Publishable(ingest, rows)
                  /\ Write(Upsert(Table, rows))
  BY DEF Commit
<1>7. /\ rows = IncomingAs(i, ingest, ByKey(i, parsed))
      /\ runs[ingest].parsed /\ {rows[k].row : k \in DOMAIN rows} = parsed
      /\ \/ DOMAIN rows = {}
         \/ ~ Collides(i, DOMAIN rows) /\ ~ Shrinks(i, DOMAIN rows)
  BY <1>4, <1>6 DEF Incoming, Publishable, Cited
<1>8. PICK t : t = Upsert(Table, rows)
  OBVIOUS
<1>9. Logged(Table) /\ Table.facts = facts /\ Table.versions = versions
  BY TableLogged DEF FactsIInv
<1>10. Logged(t) /\ Longer(versions, t.versions)
  BY <1>8, <1>9, UpsertLogged
<1>11. facts' = t.facts /\ versions' = t.versions
  BY <1>6, <1>8 DEF Write
<1>12. LogKept'
  BY <1>10, <1>11, LogStep DEF FactsIInv, Commit
<1>13. PICK table, old, new : table = Table /\ old = facts /\ new = t.facts
  OBVIOUS
<1>14. /\ DOMAIN new = DOMAIN rows \cup DOMAIN old
       /\ \A k \in DOMAIN rows : new[k] = Merged(table, k, rows[k])
       /\ \A k \in DOMAIN old \ DOMAIN rows : new[k] = old[k]
  BY <1>8, <1>9, <1>13, UpsertIs
<1>15. ASSUME NEW k \in DOMAIN rows
       PROVE  /\ new[k].issuer = i /\ new[k].snapshot = ingest /\ new[k].parser = "v2s2"
              /\ new[k].row = rows[k].row /\ new[k].row \in parsed /\ Key(i, new[k].row) = k
  <2>1. PICK by : by = ByKey(i, parsed)
    OBVIOUS
  <2>2. k \in DOMAIN by /\ rows[k] = Stored(i, Security[i], Run("ingest", ingest), ingest, "v2s2", by[k])
    BY <1>7, <2>1 DEF IncomingAs
  <2>3. by[k] \in parsed /\ Key(i, by[k]) = k
    BY <2>1, <2>2, ByKeyIs
  <2>4. new[k] = Merged(table, k, rows[k])
    BY <1>14
  <2>5. /\ new[k].issuer = i /\ new[k].snapshot = ingest /\ new[k].parser = "v2s2" /\ new[k].row = by[k]
    BY <2>2, <2>4, MergedIs
  <2>6. rows[k].row = by[k]
    BY <2>2 DEF Stored
  <2> QED BY <2>3, <2>5, <2>6
<1>16. RowsKept'
  <2>1. ASSUME NEW k \in DOMAIN rows PROVE RowKept(k, new[k])
    <3>1. k = <<Ticker[i], new[k].row.end, new[k].row.filed, new[k].row.metric>>
      BY <1>15 DEF Key
    <3>2. k = <<k[1], new[k].row.end, new[k].row.filed, new[k].row.metric>> /\ k[1] = Ticker[i]
      BY <3>1
    <3>3. new[k].row \in Parsed[i][runs[ingest].response]["v2s2"].rows
      BY <1>4, <1>15 DEF Replay
    <3> QED BY <1>1, <1>4, <1>5, <1>15, <3>2, <3>3 DEF RowKept, Parsers
  <2>2. \A k \in DOMAIN new : RowKept(k, new[k])
    BY <1>13, <1>14, <2>1 DEF FactsIInv, RowsKept
  <2> QED BY <1>3, <1>11, <1>13, <2>2, RunsGrow DEF RowsKept
<1>17. (\A j \in Issuers : WholeOf(facts, j))'
  <2> SUFFICES ASSUME NEW j \in Issuers PROVE WholeOf(facts, j)'
    OBVIOUS
  <2>1. j # NoIssuer
    BY FactsAssumption
  <2>2. CASE j # i \/ DOMAIN rows = {}
    <3>1. \A k \in DOMAIN old : old[k].issuer = j => k \in DOMAIN new /\ new[k] = old[k]
      BY <1>7, <1>13, <1>14, <2>1, <2>2 DEF Collides
    <3>2. \A k \in DOMAIN new : new[k].issuer = j => k \in DOMAIN old /\ new[k] = old[k]
      BY <1>14, <1>15, <2>2
    <3>3. LiveRelation(new, j) = LiveRelation(old, j)
      BY <3>1, <3>2, LiveSame
    <3>4. WholeOf(old, j)
      BY <1>13 DEF FactsIInv
    <3>5. WholeOf(new, j)
      BY <3>3, <3>4 DEF WholeOf
    <3>6. WholeOf(new, j)'
      BY <1>3, <3>5, RunsGrow
    <3> QED BY <1>11, <1>13, <3>6 DEF WholeOf, LiveRelation, KeysOf
  <2>3. CASE j = i /\ DOMAIN rows # {}
    <3>1. KeysOf(new, i) = DOMAIN rows
      <4>1. \A k \in DOMAIN old : old[k].issuer = i => k \in DOMAIN rows
        BY <1>7, <1>13, <2>3 DEF Shrinks, KeysOf
      <4> QED BY <1>14, <1>15, <4>1 DEF KeysOf
    <3>2. LiveRelation(new, i) = {Economics(rows[k].row) : k \in DOMAIN rows}
      BY <1>15, <3>1 DEF LiveRelation
    <3>3. LiveRelation(new, i) = Relation(parsed)
      BY <1>7, <3>2 DEF Relation
    <3>4. LiveRelation(new, i) = Relation(Parsed[i][runs[ingest].response]["v2s2"].rows)
      BY <1>4, <3>3 DEF Replay
    <3>5. WholeOf(new, i)
      BY <1>1, <1>4, <1>7, <3>4 DEF WholeOf
    <3>6. WholeOf(new, i)'
      BY <1>3, <3>5, RunsGrow
    <3> QED BY <1>11, <1>13, <2>3, <3>6 DEF WholeOf, LiveRelation, KeysOf
  <2> QED BY <2>2, <2>3
<1>18. PlansKept'
  BY <1>3, RunsGrow DEF FactsIInv, PlansKept, Commit
<1>19. faults' \in 0..MaxFaults
  BY DEF FactsIInv, Commit
<1> QED BY <1>3, <1>12, <1>16, <1>17, <1>18, <1>19 DEF FactsIInv

(* What an activation that succeeds has written.                           *)
LEMMA ActivateStep ==
  ASSUME FactsIInv, NEW n \in DOMAIN plans, Activate(n)
  PROVE  /\ FactsIInv'
         /\ \A m \in accepted' \ accepted :
              /\ \A i \in plans[m].issuers : LiveRelation(facts', i) = Relation(plans[m].after[i])
              /\ \A k \in DOMAIN facts : facts[k].issuer \notin plans[m].issuers \cup {NoIssuer}
                                         => k \in DOMAIN facts' /\ facts'[k] = facts[k]
<1>1. PICK t : /\ t = Transaction(facts, n)
               /\ \/ /\ t.ok
                     /\ Write(t)
                     /\ generations' = Append(generations, Generation(t.facts, t.versions))
                     /\ accepted' = accepted \cup {n}
                  \/ /\ ~ t.ok
                     /\ UNCHANGED <<facts, versions, generations, accepted>>
  BY DEF Activate
<1>2. UNCHANGED <<day, runs, plans, ingest, faults>> /\ checked' = 0
  BY DEF Activate
<1>3. Later /\ RunsKept'
  BY <1>2, SameRuns, RunsSame DEF FactsIInv
<1>4. checked' \in 0..Len(plans)
  BY <1>2, ListIs DEF FactsIInv, PlansKept
<1>5. CASE ~ t.ok
  <2>1. UNCHANGED <<facts, versions, generations, plans, accepted>>
    BY <1>1, <1>2, <1>5
  <2>2. FactsIInv'
    BY <1>2, <1>3, <1>4, <2>1, RunsStep DEF FactsIInv
  <2> QED BY <2>1, <2>2
<1>6. CASE t.ok
  <2>1. /\ facts' = t.facts /\ versions' = t.versions /\ accepted' = accepted \cup {n}
        /\ generations' = Append(generations, Generation(t.facts, t.versions))
    BY <1>1, <1>6 DEF Write
  <2>2. Done(plans[n].issuers, t, n)
    BY <1>1, TransactionDone DEF FactsIInv
  <2>3. PICK old, new : old = facts /\ new = t.facts
    OBVIOUS
  <2>4. /\ Logged(t) /\ Longer(versions, t.versions)
        /\ \A k \in DOMAIN new : RowKept(k, new[k])
        /\ \A i \in plans[n].issuers : LiveRelation(new, i) = Relation(plans[n].after[i])
        /\ \A k \in DOMAIN old : old[k].issuer \notin plans[n].issuers \cup {NoIssuer} =>
                                     k \in DOMAIN new /\ new[k] = old[k]
        /\ \A k \in DOMAIN new : new[k].issuer \notin plans[n].issuers \cup {NoIssuer} =>
                                     k \in DOMAIN old /\ new[k] = old[k]
    BY <1>6, <2>2, <2>3 DEF Done
  <2>5. LogKept'
    <3>1. IsList(versions) /\ IsList(t.versions) /\ IsList(generations)
      BY <2>4 DEF FactsIInv, LogKept, Logged
    <3>2. \A g \in DOMAIN generations :
            /\ generations[g].boundary \in 0..Len(t.versions)
            /\ AsRead(t.versions, generations[g].boundary) = generations[g].seen
      BY <2>4, <3>1, LongerReads DEF FactsIInv, LogKept
    <3>3. /\ IsList(generations')
          /\ \A g \in DOMAIN generations' :
               /\ generations'[g].boundary \in 0..Len(t.versions)
               /\ AsRead(t.versions, generations'[g].boundary) = generations'[g].seen
      BY <2>1, <2>4, <3>1, <3>2, LogNamed
    <3> QED BY <2>1, <2>4, <3>1, <3>3 DEF LogKept, Logged
  <2>6. RowsKept'
    BY <1>3, <2>1, <2>3, <2>4, RunsGrow DEF RowsKept
  <2>7. PlansKept'
    <3>1. \A m \in DOMAIN plans : PlanKept(plans[m])
      BY DEF FactsIInv, PlansKept
    <3>2. (\A m \in DOMAIN plans : PlanKept(plans[m]))'
      BY <1>2, <1>3, <3>1, RunsGrow
    <3> QED BY <1>2, <1>4, <2>1, <3>2 DEF FactsIInv, PlansKept
  <2>8. (\A j \in Issuers : WholeOf(facts, j))'
    <3> SUFFICES ASSUME NEW j \in Issuers PROVE WholeOf(facts, j)'
      OBVIOUS
    <3>1. WholeOf(new, j)
      <4>1. CASE j \in plans[n].issuers
        <5>1. PlanKept(plans[n])
          BY DEF FactsIInv, PlansKept
        <5>2. PICK r : /\ r \in Observed(j, plans[n].asof) /\ runs[r].parsed
                       /\ plans[n].after[j] = Parsed[j][runs[r].response][plans[n].target].rows
          BY <4>1, <5>1 DEF PlanKept
        <5>3. r \in DOMAIN runs /\ runs[r].issuer = j /\ plans[n].target \in {"v2s2", "v3", "v4"}
          BY <5>1, <5>2 DEF PlanKept, Observed
        <5> QED BY <2>4, <4>1, <5>2, <5>3 DEF WholeOf
      <4>2. CASE j \notin plans[n].issuers
        <5>1. j # NoIssuer
          BY FactsAssumption
        <5>2. LiveRelation(new, j) = LiveRelation(old, j)
          BY <2>4, <4>2, <5>1, LiveSame
        <5>3. WholeOf(old, j)
          BY <2>3 DEF FactsIInv
        <5> QED BY <5>2, <5>3 DEF WholeOf
      <4> QED BY <4>1, <4>2
    <3>2. WholeOf(new, j)'
      BY <1>3, <3>1, RunsGrow
    <3> QED BY <2>1, <2>3, <3>2 DEF WholeOf, LiveRelation, KeysOf
  <2>9. FactsIInv'
    BY <1>2, <1>3, <2>5, <2>6, <2>7, <2>8 DEF FactsIInv
  <2> QED BY <2>1, <2>3, <2>4, <2>9
<1> QED BY <1>5, <1>6

LEMMA InitHolds ==
  ASSUME FactsInit
  PROVE  FactsIInv
<1>1. PICK e, none : e = [put |-> Legacy, gone |-> none] /\ none = {}
  OBVIOUS
<1>2. /\ day = 1 /\ runs = <<>> /\ facts = Legacy /\ versions = <<e>>
      /\ generations = <<>> /\ plans = <<>> /\ accepted = {} /\ ingest = 0
      /\ faults = 0 /\ checked = 0
  BY <1>1 DEF FactsInit
<1>3. IsList(<<>>) /\ DOMAIN <<>> = {} /\ Len(<<>>) = 0
  BY DEF IsList
<1>4. RunsKept
  BY <1>2, <1>3, FactsAssumption DEF RunsKept
<1>5. PlansKept
  BY <1>2, <1>3 DEF PlansKept
<1>6. \A k \in DOMAIN Legacy : Legacy[k].issuer = NoIssuer
  BY FactsAssumption
<1>7. RowsKept
  BY <1>2, FactsAssumption DEF RowsKept, RowKept
<1>8. PICK l : l = versions
  OBVIOUS
<1>9. IsList(l) /\ Len(l) = 1 /\ l[1] = e
  BY <1>2, <1>8 DEF IsList
<1>10. AsRead(l, 1) = Legacy
  <2>1. DOMAIN AsRead(l, 0) = {}
    <3>1. KeysIn(l, 0) = {}
      BY DEF KeysIn
    <3>2. ReadIn(l, 0) = {}
      BY <3>1 DEF ReadIn
    <3> QED BY <3>2, AsReadIs
  <2>2. PICK b, put : b = 0 /\ put = Legacy
    OBVIOUS
  <2>3. b \in Nat /\ l[b + 1] = [put |-> put, gone |-> none] /\ DOMAIN put \cap none = {}
    BY <1>1, <1>9, <2>2
  <2>4. AsRead(l, b + 1) = [k \in DOMAIN put \cup (DOMAIN AsRead(l, b) \ none) |->
                              IF k \in DOMAIN put THEN put[k] ELSE AsRead(l, b)[k]]
    BY ONLY <2>3, AsReadMore
  <2>5. DOMAIN put \cup (DOMAIN AsRead(l, b) \ none) = DOMAIN put
    BY <2>1, <2>2
  <2>6. AsRead(l, b + 1) = [k \in DOMAIN put |-> put[k]]
    BY <2>4, <2>5
  <2> QED BY <2>2, <2>6, FactsAssumption
<1>11. LogKept
  BY <1>2, <1>3, <1>8, <1>9, <1>10 DEF LogKept
<1>12. ASSUME NEW i \in Issuers PROVE WholeOf(facts, i)
  <2>1. KeysOf(facts, i) = {}
    BY <1>2, <1>6, FactsAssumption DEF KeysOf
  <2>2. LiveRelation(facts, i) = {}
    BY <2>1 DEF LiveRelation
  <2> QED BY <2>2 DEF WholeOf
<1> QED BY <1>2, <1>4, <1>5, <1>7, <1>11, <1>12, FactsAssumption DEF FactsIInv

LEMMA NextHolds ==
  ASSUME FactsIInv, [FactsNext]_factsVars
  PROVE  FactsIInv'
<1>1. CASE FactsNext
  <2>1. CASE \E i \in Issuers : \E n \in DOMAIN Feed[i] : Capture(i, n)
    BY <2>1, CaptureStep
  <2>2. CASE Attach \/ Commit \/ FailIngest \/ ProcessCrash
    BY <2>2, AttachStep, CommitStep, FailStep, CrashStep
  <2>3. CASE PurgeEbitda \/ QuarantineInvalidPeriods \/ CaptureGeneration
    BY <2>3, RepairStep, GenerationStep
  <2>4. CASE \E scope \in SUBSET Issuers \ {{}} : PrepareV3(scope) \/ PrepareV4(scope)
    BY <2>4, PublishStep DEF PrepareV3, PrepareV4
  <2>5. CASE \E n \in DOMAIN plans : Check(n) \/ Activate(n)
    BY <2>5, CheckStep, ActivateStep
  <2>6. CASE NextDay
    BY <2>6, NextDayStep
  <2> QED BY <1>1, <2>1, <2>2, <2>3, <2>4, <2>5, <2>6 DEF FactsNext
<1>2. CASE UNCHANGED factsVars
  <2>1. Later /\ RunsKept'
    BY <1>2, SameRuns, RunsSame DEF factsVars, FactsIInv
  <2> QED BY <1>2, <2>1, RunsStep DEF factsVars, FactsIInv, PlansKept
<1> QED BY <1>1, <1>2

LEMMA Inductive == FactsSpec => []FactsIInv
<1> QED BY InitHolds, NextHolds, PTL DEF FactsSpec
-----------------------------------------------------------------------------
(* A named generation reads for ever what the facts were at its capture,   *)
(* whatever feeds, issuers, tickers and repairs there are and however many *)
(* entries the log gets after it (fundamental versions of store.py).       *)
THEOREM GenerationsHold == FactsSpec => []GenerationsFrozen
<1>1. FactsIInv => GenerationsFrozen
  BY DEF FactsIInv, LogKept, GenerationsFrozen
<1> QED BY <1>1, Inductive, PTL

(* The stored facts of an issuer are one of its parsed responses under one *)
(* contract, whole, and every row replays from the response it cites, for  *)
(* every set of issuers, shared tickers and responses, through refreshes,  *)
(* refusals, crashes, repairs and activations.                             *)
THEOREM FactsHold == FactsSpec => []FactsInv
<1>1. FactsIInv => FactsTypeOK
  <2> SUFFICES ASSUME FactsIInv PROVE FactsTypeOK
    OBVIOUS
  <2>1. \A r \in DOMAIN runs : /\ runs[r].issuer \in Issuers /\ runs[r].parsed \in BOOLEAN
                               /\ runs[r].outcome \in {"none", "success", "warning", "failed"}
    BY DEF FactsIInv, RunsKept, RunOf
  <2>2. \A k \in DOMAIN facts : k = <<k[1], facts[k].row.end, facts[k].row.filed, facts[k].row.metric>>
    BY DEF FactsIInv, RowsKept, RowKept
  <2> QED BY <2>1, <2>2 DEF FactsIInv, RunsKept, LogKept, PlansKept, FactsTypeOK
<1>2. FactsIInv => WholeRelation
  <2> SUFFICES ASSUME FactsIInv, NEW i \in Issuers
               PROVE  /\ WholeOf(facts, i)
                      /\ \A s \in LiveRows(i) :
                           /\ s.snapshot \in DOMAIN runs /\ runs[s.snapshot].issuer = i
                           /\ s.row \in Parsed[i][runs[s.snapshot].response][s.parser].rows
    BY DEF WholeRelation, WholeOf
  <2>1. WholeOf(facts, i) /\ i # NoIssuer
    BY FactsAssumption DEF FactsIInv
  <2>2. ASSUME NEW s \in LiveRows(i)
        PROVE  /\ s.snapshot \in DOMAIN runs /\ runs[s.snapshot].issuer = i
               /\ s.row \in Parsed[i][runs[s.snapshot].response][s.parser].rows
    <3>1. PICK k \in DOMAIN facts : s = facts[k] /\ s.issuer = i
      BY DEF LiveRows, KeysOf
    <3>2. RowKept(k, s)
      BY <3>1 DEF FactsIInv, RowsKept
    <3> QED BY <2>1, <3>1, <3>2 DEF RowKept
  <2> QED BY <2>1, <2>2
<1> QED BY <1>1, <1>2, Inductive, PTL DEF FactsInv

(* A receipt appears only together with the whole change of its plan: each *)
(* of its issuers then holds what the reviewed response says under the     *)
(* stricter contract, and no row of another issuer is touched, however     *)
(* many issuers a plan covers and in whatever order they are replaced.     *)
THEOREM ActivationHolds == FactsSpec => ActivationExact
<1> DEFINE A == \A n \in accepted' \ accepted :
       /\ \A i \in plans[n].issuers :
            LiveRelation(facts', i) = Relation(Parsed[i][runs[plans[n].review.evidence[i]].response]
                                             [plans[n].target].rows)
       /\ \A k \in DOMAIN facts : facts[k].issuer \notin plans[n].issuers \cup {NoIssuer}
                                  => k \in DOMAIN facts' /\ facts'[k] = facts[k]
<1>1. FactsIInv /\ [FactsNext]_factsVars => [A]_factsVars
  <2> SUFFICES ASSUME FactsIInv, FactsNext PROVE A
    OBVIOUS
  <2>1. CASE \E n \in DOMAIN plans : Activate(n)
    <3> PICK n \in DOMAIN plans : Activate(n)
      BY <2>1
    <3> SUFFICES ASSUME NEW m \in accepted' \ accepted
                 PROVE  /\ \A i \in plans[m].issuers :
                             LiveRelation(facts', i) = Relation(Parsed[i][runs[plans[m].review.evidence[i]].response]
                                                              [plans[m].target].rows)
                        /\ \A k \in DOMAIN facts : facts[k].issuer \notin plans[m].issuers \cup {NoIssuer}
                                                   => k \in DOMAIN facts' /\ facts'[k] = facts[k]
      OBVIOUS
    <3>1. m \in DOMAIN plans
      BY DEF Activate, FactsIInv, PlansKept
    <3>2. \A i \in plans[m].issuers :
            plans[m].after[i] = Parsed[i][runs[plans[m].review.evidence[i]].response][plans[m].target].rows
      BY <3>1 DEF FactsIInv, PlansKept, PlanKept
    <3>3. /\ \A i \in plans[m].issuers : LiveRelation(facts', i) = Relation(plans[m].after[i])
          /\ \A k \in DOMAIN facts : facts[k].issuer \notin plans[m].issuers \cup {NoIssuer}
                                     => k \in DOMAIN facts' /\ facts'[k] = facts[k]
      BY ActivateStep, Zenon
    <3>4. ASSUME NEW i \in plans[m].issuers
          PROVE  LiveRelation(facts', i)
                   = Relation(Parsed[i][runs[plans[m].review.evidence[i]].response][plans[m].target].rows)
      BY <3>2, <3>3
    <3> QED BY <3>3, <3>4, Zenon
  <2>2. CASE ~ \E n \in DOMAIN plans : Activate(n)
    <3>1. accepted' = accepted
      BY <2>2 DEF FactsNext, Capture, Attach, Commit, FailIngest, ProcessCrash, PurgeEbitda, QuarantineInvalidPeriods,
                  CaptureGeneration, PrepareV3, PrepareV4, Publish, Check, NextDay
    <3> QED BY <3>1
  <2> QED BY <2>1, <2>2
<1>2. FactsSpec => [][A]_factsVars
  BY <1>1, Inductive, PTL DEF FactsSpec
<1> QED BY <1>2 DEF ActivationExact

-----------------------------------------------------------------------------
(***************************************************************************)
(* The trailing year.  A total is folded over a set in an order nobody     *)
(* knows, so sums come first: any order gives the same, and parts add up.  *)
(* Then ranks: the rows of a history, counted from the oldest, follow one  *)
(* another.  Labels that follow one another are period ends ten days       *)
(* apart, and each way of building the year is a sum between two dates.    *)
(***************************************************************************)

(* Induction over the subsets of a finite set.                             *)
LEMMA Subsets ==
  ASSUME NEW S, IsFiniteSet(S), NEW T \in SUBSET (SUBSET S), {} \in T,
         \A x \in T : \A a \in S \ x : x \cup {a} \in T
  PROVE  T = SUBSET S
<1> DEFINE K == {n \in Nat : \A x \in SUBSET S : Cardinality(x) <= n => x \in T}
<1>1. 0 \in K
  <2>1. ASSUME NEW x \in SUBSET S, Cardinality(x) <= 0 PROVE x = {}
    <3>1. IsFiniteSet(x) /\ Cardinality(x) \in Nat /\ (Cardinality(x) = 0 <=> x = {})
      BY FS_Subset, FS_CardinalityType, FS_EmptySet
    <3> QED BY <2>1, <3>1
  <2> QED BY <2>1
<1>2. ASSUME NEW n \in Nat, n \in K PROVE n + 1 \in K
  <2> SUFFICES ASSUME NEW x \in SUBSET S, Cardinality(x) <= n + 1 PROVE x \in T
    OBVIOUS
  <2>1. CASE x = {}
    BY <2>1
  <2>2. CASE x # {}
    <3>1. PICK r : r = x \ {OneOf(x)}
      OBVIOUS
    <3>2. OneOf(x) \in x /\ r \in SUBSET S /\ Cardinality(x) \in Nat /\ Cardinality(r) = Cardinality(x) - 1
      BY <2>2, <3>1, Smaller
    <3>3. r \in T
      BY <1>2, <3>2
    <3>4. r \cup {OneOf(x)} = x /\ OneOf(x) \in S \ r
      BY <3>1, <3>2
    <3> QED BY <3>3, <3>4
  <2> QED BY <2>1, <2>2
<1>3. K \in SUBSET Nat
  OBVIOUS
<1> HIDE DEF K
<1>4. K = Nat
  BY <1>1, <1>2, <1>3, Smallest
<1>5. ASSUME NEW x \in SUBSET S PROVE x \in T
  <2>1. Cardinality(x) \in K
    BY <1>4, FS_Subset, FS_CardinalityType
  <2>2. Cardinality(x) \in Nat
    BY FS_Subset, FS_CardinalityType
  <2> QED BY <2>1, <2>2 DEF K
<1> QED BY <1>5

(* A sum over a set is the value of the one function that satisfies this.  *)
IsSum(g, S, v) ==
  g = [x \in SUBSET S |-> IF x = {} THEN 0 ELSE v[OneOf(x)] + g[x \ {OneOf(x)}]]
SumOn(v, S) == (CHOOSE g : IsSum(g, S, v))[S]

LEMMA SumMade ==
  ASSUME NEW S, IsFiniteSet(S), NEW v
  PROVE  IsSum(CHOOSE g : IsSum(g, S, v), S, v)
<1>1. PICK kind, zero : kind = "sum" /\ zero = 0
  OBVIOUS
<1>2. PICK f : IsFold(f, SUBSET S, kind, v, zero)
  BY FoldExists
<1>3. ASSUME NEW x \in SUBSET S
      PROVE  f[x] = IF x = {} THEN 0 ELSE v[OneOf(x)] + f[x \ {OneOf(x)}]
  BY <1>1, <1>2 DEF IsFold, Do
<1>4. f = [x \in SUBSET S |-> f[x]]
  BY <1>2 DEF IsFold
<1>5. IsSum(f, S, v)
  BY <1>3, <1>4, Zenon DEF IsSum
<1> QED BY <1>5, Zenon

LEMMA SumsAgree ==
  ASSUME NEW S, IsFiniteSet(S), NEW R \in SUBSET S, NEW g, NEW h, NEW v, NEW w,
         IsSum(g, S, v), IsSum(h, R, w), \A k \in R : v[k] = w[k]
  PROVE  g[R] = h[R]
<1> DEFINE K == {n \in Nat : \A x \in SUBSET R : Cardinality(x) <= n => g[x] = h[x]}
<1>1. IsFiniteSet(R)
  BY FS_Subset
<1>2. ASSUME NEW x \in SUBSET R
      PROVE  /\ g[x] = IF x = {} THEN 0 ELSE v[OneOf(x)] + g[x \ {OneOf(x)}]
             /\ h[x] = IF x = {} THEN 0 ELSE w[OneOf(x)] + h[x \ {OneOf(x)}]
  BY DEF IsSum
<1>3. 0 \in K
  <2>1. ASSUME NEW x \in SUBSET R, Cardinality(x) <= 0 PROVE x = {}
    <3>1. IsFiniteSet(x) /\ Cardinality(x) \in Nat /\ (Cardinality(x) = 0 <=> x = {})
      BY <1>1, FS_Subset, FS_CardinalityType, FS_EmptySet
    <3> QED BY <2>1, <3>1
  <2> QED BY <1>2, <2>1
<1>4. ASSUME NEW n \in Nat, n \in K PROVE n + 1 \in K
  <2> SUFFICES ASSUME NEW x \in SUBSET R, Cardinality(x) <= n + 1, x # {} PROVE g[x] = h[x]
    BY <1>2
  <2>1. OneOf(x) \in x /\ x \ {OneOf(x)} \in SUBSET R
        /\ Cardinality(x) \in Nat /\ Cardinality(x \ {OneOf(x)}) = Cardinality(x) - 1
    BY <1>1, Smaller
  <2>2. g[x \ {OneOf(x)}] = h[x \ {OneOf(x)}]
    BY <1>4, <2>1
  <2>3. v[OneOf(x)] = w[OneOf(x)]
    BY <2>1
  <2> QED BY <1>2, <2>2, <2>3
<1>5. K \in SUBSET Nat
  OBVIOUS
<1> HIDE DEF K
<1>6. K = Nat
  BY <1>3, <1>4, <1>5, Smallest
<1>7. Cardinality(R) \in Nat /\ Cardinality(R) \in K
  BY <1>1, <1>6, FS_CardinalityType
<1> QED BY <1>7 DEF K

LEMMA SumSame ==
  ASSUME NEW S, IsFiniteSet(S), NEW v, NEW w, \A k \in S : v[k] = w[k], NEW g, IsSum(g, S, v)
  PROVE  g[S] = SumOn(w, S)
<1>1. PICK h : h = CHOOSE f : IsSum(f, S, w)
  OBVIOUS
<1>2. IsSum(h, S, w)
  BY <1>1, SumMade
<1>3. g[S] = h[S]
  BY <1>2, SumsAgree
<1> QED BY <1>1, <1>3 DEF SumOn

LEMMA SumStep ==
  ASSUME NEW S, IsFiniteSet(S), NEW v
  PROVE  /\ S = {} => SumOn(v, S) = 0
         /\ S # {} => SumOn(v, S) = v[OneOf(S)] + SumOn(v, S \ {OneOf(S)})
<1>1. PICK g, R : g = (CHOOSE f : IsSum(f, S, v)) /\ R = S \ {OneOf(S)}
  OBVIOUS
<1>2. IsSum(g, S, v) /\ SumOn(v, S) = g[S]
  BY <1>1, SumMade DEF SumOn
<1>3. g[S] = IF S = {} THEN 0 ELSE v[OneOf(S)] + g[R]
  BY <1>1, <1>2 DEF IsSum
<1>4. PICK h : h = CHOOSE f : IsSum(f, R, v)
  OBVIOUS
<1>5. IsFiniteSet(R) /\ R \in SUBSET S
  BY <1>1, FS_Subset
<1>6. IsSum(h, R, v) /\ SumOn(v, R) = h[R]
  BY <1>4, <1>5, SumMade DEF SumOn
<1>7. g[R] = h[R]
  BY <1>2, <1>5, <1>6, SumsAgree
<1> QED BY <1>1, <1>2, <1>3, <1>6, <1>7

LEMMA SumRest ==
  ASSUME NEW S, IsFiniteSet(S), NEW v, \A k \in S : v[k] \in Int
  PROVE  SumOn(v, S) \in Int /\ \A a \in S : SumOn(v, S) = v[a] + SumOn(v, S \ {a})
<1> DEFINE K == {n \in Nat : \A x \in SUBSET S : Cardinality(x) <= n =>
                   SumOn(v, x) \in Int /\ \A a \in x : SumOn(v, x) = v[a] + SumOn(v, x \ {a})}
<1>1. 0 \in K
  <2>1. ASSUME NEW x \in SUBSET S, Cardinality(x) <= 0 PROVE x = {} /\ SumOn(v, x) = 0
    <3>1. IsFiniteSet(x) /\ Cardinality(x) \in Nat /\ (Cardinality(x) = 0 <=> x = {})
      BY FS_Subset, FS_CardinalityType, FS_EmptySet
    <3>2. x = {}
      BY <2>1, <3>1
    <3> QED BY <3>1, <3>2, SumStep
  <2> QED BY <2>1
<1>2. ASSUME NEW n \in Nat, n \in K PROVE n + 1 \in K
  <2> SUFFICES ASSUME NEW x \in SUBSET S, Cardinality(x) <= n + 1
               PROVE  SumOn(v, x) \in Int /\ \A a \in x : SumOn(v, x) = v[a] + SumOn(v, x \ {a})
    OBVIOUS
  <2>1. IsFiniteSet(x) /\ Cardinality(x) \in Nat
    BY FS_Subset, FS_CardinalityType
  <2>2. CASE x = {}
    <3>1. SumOn(v, x) = 0
      BY <2>1, <2>2, SumStep
    <3> QED BY <2>2, <3>1
  <2>3. CASE x # {}
    <3>1. PICK c, r : c = OneOf(x) /\ r = x \ {OneOf(x)}
      OBVIOUS
    <3>2. c \in x /\ r \in SUBSET S /\ Cardinality(r) <= n
      BY <2>1, <2>3, <3>1, Smaller
    <3>3. SumOn(v, x) = v[c] + SumOn(v, r)
      BY <2>1, <2>3, <3>1, SumStep
    <3>4. SumOn(v, r) \in Int /\ \A a \in r : SumOn(v, r) = v[a] + SumOn(v, r \ {a})
      BY <1>2, <3>2
    <3>5. v[c] \in Int
      BY <3>2
    <3>6. ASSUME NEW a \in x, a # c PROVE SumOn(v, x) = v[a] + SumOn(v, x \ {a})
      <4>1. PICK s, q : s = x \ {a} /\ q = r \ {a}
        OBVIOUS
      <4>2. a \in r /\ c \in s /\ q = s \ {c} /\ s \in SUBSET S /\ q \in SUBSET S
        BY <3>1, <3>2, <3>6, <4>1
      <4>3. Cardinality(s) <= n
        <5>1. Cardinality(s) = Cardinality(x) - 1
          BY <2>1, <4>1, FS_RemoveElement
        <5> QED BY <2>1, <5>1
      <4>4. SumOn(v, s) = v[c] + SumOn(v, q)
        BY <1>2, <4>2, <4>3
      <4>5. SumOn(v, r) = v[a] + SumOn(v, q)
        BY <3>4, <4>1, <4>2
      <4>6. Cardinality(q) <= n
        <5>1. IsFiniteSet(s) /\ q \in SUBSET s
          BY <2>1, <4>1, <4>2, FS_Subset
        <5>2. Cardinality(q) <= Cardinality(s) /\ Cardinality(q) \in Nat /\ Cardinality(s) \in Nat
          BY <5>1, FS_Subset, FS_CardinalityType
        <5> QED BY <4>3, <5>2
      <4>7. v[a] \in Int /\ SumOn(v, q) \in Int
        BY <1>2, <4>2, <4>6
      <4>8. PICK p : p = SumOn(v, q) /\ p \in Int
        BY <4>7
      <4> QED BY <3>3, <3>5, <4>1, <4>4, <4>5, <4>7, <4>8
    <3>7. SumOn(v, x) \in Int
      <4>1. PICK p, q : p = SumOn(v, r) /\ q = v[c]
        OBVIOUS
      <4> QED BY <3>3, <3>4, <3>5, <4>1
    <3>8. SumOn(v, x) = v[c] + SumOn(v, x \ {c})
      BY <3>1, <3>3
    <3> QED BY <3>6, <3>7, <3>8
  <2> QED BY <2>2, <2>3
<1>3. K \in SUBSET Nat
  OBVIOUS
<1> HIDE DEF K
<1>4. K = Nat
  BY <1>1, <1>2, <1>3, Smallest
<1>5. Cardinality(S) \in Nat /\ Cardinality(S) \in K
  BY <1>4, FS_CardinalityType
<1> QED BY <1>5 DEF K

LEMMA SumMore ==
  ASSUME NEW S, IsFiniteSet(S), NEW v, \A k \in S : v[k] \in Int
  PROVE  /\ SumOn(v, {}) = 0
         /\ \A x \in SUBSET S : /\ SumOn(v, x) \in Int
                                /\ \A a \in S \ x : SumOn(v, x \cup {a}) = v[a] + SumOn(v, x)
<1>1. SumOn(v, {}) = 0
  BY FS_EmptySet, SumStep
<1>2. ASSUME NEW x \in SUBSET S PROVE IsFiniteSet(x) /\ SumOn(v, x) \in Int
  <2>1. IsFiniteSet(x) /\ \A k \in x : v[k] \in Int
    BY FS_Subset
  <2> QED BY <2>1, SumRest
<1>3. ASSUME NEW x \in SUBSET S, NEW a \in S \ x PROVE SumOn(v, x \cup {a}) = v[a] + SumOn(v, x)
  <2>1. PICK y : y = x \cup {a}
    OBVIOUS
  <2>2. y \in SUBSET S /\ a \in y /\ x = y \ {a}
    BY <2>1
  <2>3. IsFiniteSet(y) /\ \A k \in y : v[k] \in Int
    BY <2>2, FS_Subset
  <2> QED BY <2>1, <2>2, <2>3, SumRest
<1> QED BY <1>1, <1>2, <1>3

LEMMA SumUnion ==
  ASSUME NEW S, IsFiniteSet(S), NEW v, \A k \in S : v[k] \in Int,
         NEW x \in SUBSET S, NEW y \in SUBSET S, x \cap y = {}
  PROVE  SumOn(v, x \cup y) = SumOn(v, x) + SumOn(v, y)
<1> DEFINE T == {z \in SUBSET y : SumOn(v, x \cup z) = SumOn(v, x) + SumOn(v, z)}
<1>1. /\ SumOn(v, {}) = 0
      /\ \A z \in SUBSET S : /\ SumOn(v, z) \in Int
                             /\ \A a \in S \ z : SumOn(v, z \cup {a}) = v[a] + SumOn(v, z)
  BY SumMore
<1>2. {} \in T
  <2>1. x \cup {} = x /\ SumOn(v, x) \in Int
    BY <1>1
  <2> QED BY <1>1, <2>1
<1>3. ASSUME NEW z \in T, NEW a \in y \ z PROVE z \cup {a} \in T
  <2>1. PICK u, w : u = x \cup z /\ w = z \cup {a}
    OBVIOUS
  <2>2. u \in SUBSET S /\ z \in SUBSET S /\ a \in S \ u /\ a \in S \ z /\ x \cup w = u \cup {a}
    BY <2>1
  <2>3. SumOn(v, u \cup {a}) = v[a] + SumOn(v, u) /\ SumOn(v, w) = v[a] + SumOn(v, z)
    BY <1>1, <2>1, <2>2
  <2>4. SumOn(v, u) = SumOn(v, x) + SumOn(v, z)
    BY <2>1
  <2>5. SumOn(v, x) \in Int /\ SumOn(v, z) \in Int /\ v[a] \in Int
    BY <1>1, <2>2
  <2>6. SumOn(v, x \cup w) = SumOn(v, x) + SumOn(v, w)
    <3>1. PICK p, q, b : p = SumOn(v, x) /\ q = SumOn(v, z) /\ b = v[a]
      OBVIOUS
    <3>2. p \in Int /\ q \in Int /\ b \in Int
      BY <2>5, <3>1
    <3>3. SumOn(v, x \cup w) = b + (p + q)
      BY <2>2, <2>3, <2>4, <3>1
    <3>4. SumOn(v, w) = b + q
      BY <2>3, <3>1
    <3>5. b + (p + q) = p + (b + q)
      BY <3>2
    <3> QED BY <3>1, <3>3, <3>4, <3>5
  <2>7. w \in SUBSET y
    BY <2>1
  <2> QED BY <2>1, <2>6, <2>7
<1>4. T \in SUBSET (SUBSET y) /\ IsFiniteSet(y)
  BY FS_Subset
<1> HIDE DEF T
<1>5. T = SUBSET y
  BY <1>2, <1>3, <1>4, Subsets
<1> QED BY <1>5 DEF T

LEMMA RevenueIs ==
  ASSUME NEW i, NEW S, IsFiniteSet(S)
  PROVE  Revenue(i, S) = SumOn(Truth[i], S)
<1>1. PICK v : v = Truth[i]
  OBVIOUS
<1>2. PICK g : g = CHOOSE f : IsSum(f, S, v)
  OBVIOUS
<1>3. Revenue(i, S) = g[S]
  BY <1>1, <1>2, Zenon DEF Revenue, MapThenSumSet, MapThenFoldSet, IsSum, OneOf
<1> QED BY <1>1, <1>2, <1>3 DEF SumOn

IsTotal(g, S) ==
  g = [x \in SUBSET S |-> IF x = {} THEN 0 ELSE OneOf(x).quarter + g[x \ {OneOf(x)}]]

LEMMA TotalIs ==
  ASSUME NEW hs, IsFiniteSet(hs), NEW v, \A h \in hs : v[h] = h.quarter
  PROVE  Total(hs) = SumOn(v, hs)
<1>1. PICK w : w = [h \in hs |-> h.quarter]
  OBVIOUS
<1>2. ASSUME NEW g PROVE IsSum(g, hs, w) <=> IsTotal(g, hs)
  <2>1. ASSUME NEW x \in SUBSET hs, x # {} PROVE w[OneOf(x)] = OneOf(x).quarter
    <3>1. OneOf(x) \in hs
      BY <2>1 DEF OneOf
    <3> QED BY <1>1, <3>1
  <2>2. [x \in SUBSET hs |-> IF x = {} THEN 0 ELSE w[OneOf(x)] + g[x \ {OneOf(x)}]]
          = [x \in SUBSET hs |-> IF x = {} THEN 0 ELSE OneOf(x).quarter + g[x \ {OneOf(x)}]]
    BY <2>1
  <2> QED BY <2>2, Zenon DEF IsSum, IsTotal
<1>3. PICK g : g = CHOOSE f : IsTotal(f, hs)
  OBVIOUS
<1>4. IsTotal(g, hs)
  <2>1. IsSum(CHOOSE f : IsSum(f, hs, w), hs, w)
    BY SumMade
  <2>2. \E f : IsTotal(f, hs)
    BY <1>2, <2>1
  <2> QED BY <1>3, <2>2, Zenon
<1>5. Total(hs) = g[hs]
  BY <1>3, Zenon DEF Total, MapThenSumSet, MapThenFoldSet, IsTotal, OneOf
<1>6. IsSum(g, hs, w) /\ \A h \in hs : w[h] = v[h]
  BY <1>1, <1>2, <1>4
<1> QED BY <1>5, <1>6, SumSame

(* A history has one row for an end, and its rows come one after another.  *)
Ordered(hs) ==
  /\ IsFiniteSet(hs) /\ \A h \in hs : h.end \in Int
  /\ \A h, g \in hs : h.end = g.end => h = g
EndsOf(hs) == {h.end : h \in hs}

LEMMA OrderedSome ==
  ASSUME NEW hs, Ordered(hs), NEW gs \in SUBSET hs
  PROVE  Ordered(gs)
  BY FS_Subset DEF Ordered

LEMMA EndsFinite ==
  ASSUME NEW hs, Ordered(hs)
  PROVE  IsFiniteSet(EndsOf(hs))
<1>1. PICK f : f = [h \in hs |-> h.end]
  OBVIOUS
<1>2. f \in Surjection(hs, EndsOf(hs))
  BY <1>1 DEF Surjection, EndsOf
<1> QED BY <1>2, FS_Surjection DEF Ordered

LEMMA SumByEnd ==
  ASSUME NEW hs, Ordered(hs), NEW v, NEW w, \A h \in hs : v[h] = w[h.end] /\ v[h] \in Int
  PROVE  SumOn(v, hs) = SumOn(w, EndsOf(hs))
<1>1. PICK es : es = EndsOf(hs)
  OBVIOUS
<1>2. IsFiniteSet(hs) /\ IsFiniteSet(es) /\ \A e \in es : w[e] \in Int
  BY <1>1, EndsFinite DEF Ordered, EndsOf
<1>3. /\ SumOn(v, {}) = 0
      /\ \A x \in SUBSET hs : \A a \in hs \ x : SumOn(v, x \cup {a}) = v[a] + SumOn(v, x)
  BY <1>2, SumMore
<1>4. /\ SumOn(w, {}) = 0
      /\ \A x \in SUBSET es : \A a \in es \ x : SumOn(w, x \cup {a}) = w[a] + SumOn(w, x)
  BY <1>2, SumMore
<1> DEFINE T == {x \in SUBSET hs : SumOn(v, x) = SumOn(w, EndsOf(x))}
<1>5. {} \in T
  <2>1. EndsOf({}) = {}
    BY DEF EndsOf
  <2> QED BY <1>3, <1>4, <2>1
<1>6. ASSUME NEW x \in T, NEW a \in hs \ x PROVE x \cup {a} \in T
  <2>1. PICK ex, e, y : ex = EndsOf(x) /\ e = a.end /\ y = x \cup {a}
    OBVIOUS
  <2>2. ex \in SUBSET es /\ e \in es \ ex
    BY <1>1, <2>1 DEF EndsOf, Ordered
  <2>3. EndsOf(y) = ex \cup {e}
    BY <2>1 DEF EndsOf
  <2>4. SumOn(w, ex \cup {e}) = w[e] + SumOn(w, ex)
    BY <1>4, <2>2
  <2>5. SumOn(v, y) = v[a] + SumOn(v, x)
    BY <1>3, <2>1
  <2>6. SumOn(v, x) = SumOn(w, ex) /\ v[a] = w[e]
    BY <2>1
  <2>7. y \in SUBSET hs
    BY <2>1
  <2>8. y \in T
    BY <2>3, <2>4, <2>5, <2>6, <2>7
  <2> QED BY <2>1, <2>8
<1>7. T \in SUBSET (SUBSET hs)
  OBVIOUS
<1> HIDE DEF T
<1>8. T = SUBSET hs
  BY <1>2, <1>5, <1>6, <1>7, Subsets
<1> QED BY <1>8 DEF T

(* Every rank from 0 up to the number of rows is the rank of one of them.  *)
LEMMA Ranks ==
  ASSUME NEW hs, Ordered(hs), NEW n, n = Cardinality(hs)
  PROVE  /\ n \in Nat
         /\ \A h \in hs : Before(h, hs) \in 0..(n - 1)
         /\ \A h, g \in hs : h.end < g.end <=> Before(h, hs) < Before(g, hs)
         /\ \A r \in 0..(n - 1) : \E h \in hs : Before(h, hs) = r
<1>1. IsFiniteSet(hs) /\ n \in Nat
  BY FS_CardinalityType DEF Ordered
<1> DEFINE below(h) == {g \in hs : g.end < h.end}
<1>2. ASSUME NEW h \in hs
      PROVE  Before(h, hs) = Cardinality(below(h)) /\ IsFiniteSet(below(h)) /\ Before(h, hs) \in 0..(n - 1)
  <2>1. below(h) \in SUBSET hs /\ h \notin below(h)
    BY DEF Ordered
  <2>2. IsFiniteSet(below(h))
    BY <1>1, <2>1, FS_Subset
  <2>3. PICK b : b = below(h)
    OBVIOUS
  <2>4. Cardinality(b) <= Cardinality(hs \ {h}) /\ Cardinality(b) \in Nat
    <3>1. IsFiniteSet(hs \ {h}) /\ b \in SUBSET (hs \ {h})
      BY <1>1, <2>1, <2>3, FS_RemoveElement
    <3> QED BY <3>1, FS_Subset, FS_CardinalityType
  <2>5. Cardinality(hs \ {h}) = n - 1
    BY <1>1, FS_RemoveElement
  <2>6. Before(h, hs) = Cardinality(b)
    BY <2>3 DEF Before
  <2> QED BY <1>1, <2>2, <2>3, <2>4, <2>5, <2>6
<1> HIDE DEF below
<1>3. ASSUME NEW h \in hs PROVE Before(h, hs) \in Int
  BY <1>2
<1>4. ASSUME NEW h \in hs, NEW g \in hs, h.end < g.end PROVE Before(h, hs) < Before(g, hs)
  <2>1. PICK b, c : b = below(h) /\ c = below(g)
    OBVIOUS
  <2>2. b \in SUBSET c /\ h \in c /\ h \notin b
    BY <1>4, <2>1 DEF Ordered, below
  <2>3. IsFiniteSet(c) /\ Before(h, hs) = Cardinality(b) /\ Before(g, hs) = Cardinality(c)
    BY <1>2, <2>1
  <2>4. Cardinality(b) <= Cardinality(c) /\ Cardinality(c) # Cardinality(b)
    BY <2>2, <2>3, FS_Subset
  <2>5. Cardinality(b) \in Int /\ Cardinality(c) \in Int
    BY <1>3, <2>3
  <2> QED BY <2>3, <2>4, <2>5
<1>5. ASSUME NEW h \in hs, NEW g \in hs PROVE h.end < g.end <=> Before(h, hs) < Before(g, hs)
  <2>1. h.end \in Int /\ g.end \in Int /\ (h.end = g.end => h = g)
    BY DEF Ordered
  <2>2. Before(h, hs) \in Int /\ Before(g, hs) \in Int
    BY <1>3
  <2>3. h.end < g.end => Before(h, hs) < Before(g, hs)
    BY <1>4
  <2>4. g.end < h.end => Before(g, hs) < Before(h, hs)
    BY <1>4
  <2> QED BY <2>1, <2>2, <2>3, <2>4
<1>6. PICK f : f = [h \in hs |-> Before(h, hs)]
  OBVIOUS
<1>7. f \in Injection(hs, 0..(n - 1))
  <2>1. f \in [hs -> 0..(n - 1)]
    BY <1>2, <1>6
  <2>2. ASSUME NEW h \in hs, NEW g \in hs, f[h] = f[g] PROVE h = g
    <3>1. Before(h, hs) = Before(g, hs) /\ Before(h, hs) \in Int
      BY <1>2, <1>6, <2>2
    <3>2. ~ (h.end < g.end) /\ ~ (g.end < h.end)
      BY <1>5, <3>1
    <3> QED BY <3>2 DEF Ordered
  <2> QED BY <1>6, <2>1, <2>2 DEF Injection, IsInjective
<1>8. IsFiniteSet(0..(n - 1)) /\ Cardinality(0..(n - 1)) = n
  <2>1. 0 \in Int /\ n - 1 \in Int
    BY <1>1
  <2>2. IsFiniteSet(0..(n - 1)) /\ Cardinality(0..(n - 1)) = IF 0 > n - 1 THEN 0 ELSE (n - 1) - 0 + 1
    BY <2>1, FS_Interval
  <2> QED BY <1>1, <2>2
<1>9. f \in Surjection(hs, 0..(n - 1))
  BY <1>7, <1>8, FS_Injection
<1>10. \A r \in 0..(n - 1) : \E h \in hs : Before(h, hs) = r
  BY <1>6, <1>9 DEF Surjection
<1> QED BY <1>1, <1>2, <1>5, <1>10

TrueYears(i) ==
  /\ IsFiniteSet(DOMAIN Truth[i]) /\ Truth[i] \in [DOMAIN Truth[i] -> Int]
  /\ \A e \in DOMAIN Truth[i] : e \in Int /\ e % 10 = 0
TrueHistory(i, hs) == Ordered(hs) /\ \A h \in hs : TrueFigure(i, h)
Between(i, from, to) == {e \in DOMAIN Truth[i] : from < e /\ e <= to}
Sum(i, from, to) == SumOn(Truth[i], Between(i, from, to))

LEMMA Tens ==
  ASSUME NEW e \in Int, e % 10 = 0
  PROVE  \E z \in Int : e = 10 * z
  BY SMT

LEMMA SumTyped ==
  ASSUME NEW i, TrueYears(i), NEW S \in SUBSET (DOMAIN Truth[i])
  PROVE  SumOn(Truth[i], S) \in Int
  BY SumMore DEF TrueYears

LEMMA SumBetween ==
  ASSUME NEW i, TrueYears(i), NEW a \in Int, NEW b \in Int, NEW c \in Int, a <= b, b <= c
  PROVE  Sum(i, a, c) = Sum(i, a, b) + Sum(i, b, c)
<1>1. PICK w, S : w = Truth[i] /\ S = DOMAIN Truth[i]
  OBVIOUS
<1>2. IsFiniteSet(S) /\ (\A e \in S : e \in Int) /\ \A e \in S : w[e] \in Int
  BY <1>1 DEF TrueYears
<1>3. PICK x, y : x = Between(i, a, b) /\ y = Between(i, b, c)
  OBVIOUS
<1>4. x \in SUBSET S /\ y \in SUBSET S /\ x \cap y = {} /\ x \cup y = Between(i, a, c)
  BY <1>1, <1>2, <1>3 DEF Between
<1>5. SumOn(w, x \cup y) = SumOn(w, x) + SumOn(w, y)
  BY <1>2, <1>4, SumUnion
<1> QED BY <1>1, <1>3, <1>4, <1>5 DEF Sum

(* The k quarters of a history that follow a date, one after the other.    *)
Following(hs, from, k) ==
  /\ \A h \in hs : ~ Annual(h)
  /\ \A h \in hs : \E n \in 1..k : h.end = from + 10 * n
  /\ \A n \in 1..k : \E h \in hs : h.end = from + 10 * n
  /\ \E z \in Int : from = 10 * z

(* What quarters add up to, and in two parts.                              *)
LEMMA TotalByEnd ==
  ASSUME NEW i, TrueYears(i), NEW hs, TrueHistory(i, hs), \A h \in hs : ~ Annual(h)
  PROVE  /\ EndsOf(hs) \in SUBSET (DOMAIN Truth[i])
         /\ Total(hs) = SumOn(Truth[i], EndsOf(hs)) /\ Total(hs) \in Int
<1>1. PICK w, S : w = Truth[i] /\ S = DOMAIN Truth[i]
  OBVIOUS
<1>2. \A e \in S : w[e] \in Int
  BY <1>1 DEF TrueYears
<1>3. Ordered(hs) /\ \A h \in hs : h.end \in S /\ h.quarter = w[h.end]
  BY <1>1 DEF TrueHistory, TrueFigure
<1>4. PICK v : v = [h \in hs |-> h.quarter]
  OBVIOUS
<1>5. \A h \in hs : v[h] = h.quarter /\ v[h] = w[h.end] /\ v[h] \in Int
  BY <1>2, <1>3, <1>4
<1>6. Total(hs) = SumOn(v, hs)
  BY <1>3, <1>5, TotalIs DEF Ordered
<1>7. SumOn(v, hs) = SumOn(w, EndsOf(hs))
  BY <1>3, <1>5, SumByEnd
<1>8. EndsOf(hs) \in SUBSET S
  BY <1>3 DEF EndsOf
<1>9. SumOn(w, EndsOf(hs)) \in Int
  BY <1>1, <1>8, SumTyped
<1> QED BY <1>1, <1>6, <1>7, <1>8, <1>9

LEMMA TotalParts ==
  ASSUME NEW i, TrueYears(i), NEW hs, TrueHistory(i, hs), (\A h \in hs : ~ Annual(h)),
         NEW xs \in SUBSET hs, NEW ys \in SUBSET hs, hs = xs \cup ys, xs \cap ys = {}
  PROVE  Total(hs) = Total(xs) + Total(ys)
<1>1. PICK w, S : w = Truth[i] /\ S = DOMAIN Truth[i]
  OBVIOUS
<1>2. IsFiniteSet(S) /\ \A e \in S : w[e] \in Int
  BY <1>1 DEF TrueYears
<1>3. TrueHistory(i, xs) /\ TrueHistory(i, ys)
  BY OrderedSome DEF TrueHistory
<1>4. PICK x, y : x = EndsOf(xs) /\ y = EndsOf(ys)
  OBVIOUS
<1>5. x \in SUBSET S /\ y \in SUBSET S
      /\ Total(hs) = SumOn(w, EndsOf(hs)) /\ Total(xs) = SumOn(w, x) /\ Total(ys) = SumOn(w, y)
  BY <1>1, <1>3, <1>4, TotalByEnd
<1>6. EndsOf(hs) = x \cup y
  BY <1>4 DEF EndsOf
<1>7. x \cap y = {}
  BY <1>4 DEF EndsOf, TrueHistory, Ordered
<1>8. SumOn(w, x \cup y) = SumOn(w, x) + SumOn(w, y)
  BY <1>2, <1>5, <1>7, SumUnion
<1> QED BY <1>5, <1>6, <1>8

LEMMA TotalBetween ==
  ASSUME NEW i, TrueYears(i), NEW hs, TrueHistory(i, hs), NEW from \in Int, NEW k \in Nat,
         Following(hs, from, k)
  PROVE  Total(hs) = Sum(i, from, from + 10 * k)
<1>0. /\ \A h \in hs : \E n \in 1..k : h.end = from + 10 * n
      /\ \A n \in 1..k : \E h \in hs : h.end = from + 10 * n
      /\ \A h \in hs : ~ Annual(h)
      /\ \E z \in Int : from = 10 * z
  BY DEF Following
<1>1. PICK S : S = DOMAIN Truth[i]
  OBVIOUS
<1>2. \A e \in S : e \in Int /\ e % 10 = 0
  BY <1>1 DEF TrueYears
<1>3. \A h \in hs : h.end \in S
  BY <1>1 DEF TrueHistory, TrueFigure
<1>4. EndsOf(hs) = Between(i, from, from + 10 * k)
  <2>1. ASSUME NEW h \in hs PROVE h.end \in Between(i, from, from + 10 * k)
    <3>1. PICK e : e = h.end
      OBVIOUS
    <3>2. PICK n \in 1..k : e = from + 10 * n
      BY <1>0, <3>1
    <3>3. e \in S
      BY <1>3, <3>1
    <3>4. from < e /\ e <= from + 10 * k
      <4>1. 10 * n <= 10 * k /\ 10 * n > 0 /\ n \in Int
        OBVIOUS
      <4> QED BY <3>2, <4>1
    <3> QED BY <1>1, <3>1, <3>3, <3>4 DEF Between
  <2>2. ASSUME NEW e \in Between(i, from, from + 10 * k) PROVE e \in EndsOf(hs)
    <3>1. e \in S /\ e \in Int /\ e % 10 = 0 /\ from < e /\ e <= from + 10 * k
      BY <1>1, <1>2 DEF Between
    <3>2. PICK z \in Int : e = 10 * z
      BY <3>1, Tens
    <3>3. PICK y \in Int : from = 10 * y
      BY <1>0
    <3>4. z - y \in 1..k /\ e = from + 10 * (z - y)
      BY <3>1, <3>2, <3>3
    <3>5. PICK n : n = z - y
      OBVIOUS
    <3>6. PICK h \in hs : h.end = from + 10 * n
      BY <1>0, <3>4, <3>5
    <3> QED BY <3>4, <3>5, <3>6 DEF EndsOf
  <2> QED BY <2>1, <2>2 DEF EndsOf
<1>5. Total(hs) = SumOn(Truth[i], EndsOf(hs))
  BY <1>0, TotalByEnd
<1> QED BY <1>4, <1>5 DEF Sum

LEMMA NumberIs ==
  ASSUME NEW h, Quarterly(h)
  PROVE  Number(h) \in 1..4 /\ ~ Annual(h)
<1>1. PICK q, s : q = h.period[1] /\ s = <<"Q1", "Q2", "Q3", "Q4">>
  OBVIOUS
<1>2. q = s[1] \/ q = s[2] \/ q = s[3] \/ q = s[4]
  BY <1>1 DEF Quarterly, Quarters
<1>3. 1 \in 1..4 /\ 2 \in 1..4 /\ 3 \in 1..4 /\ 4 \in 1..4
  OBVIOUS
<1>4. \E n \in 1..4 : q = s[n]
  BY <1>2, <1>3, Zenon
<1>5. Number(h) \in 1..4
  BY <1>1, <1>4, Zenon DEF Number
<1>6. ~ Annual(h)
  BY DEF Quarterly, Quarters, Annual
<1> QED BY <1>5, <1>6

(* What an own label says.                                                 *)
LEMMA OwnIs ==
  ASSUME NEW i, NEW h, TrueFigure(i, h), OwnLabel(h)
  PROVE  /\ h.period[2] \in Int
         /\ Annual(h) => h.end = 40 * h.period[2]
         /\ Quarterly(h) => h.end = 40 * h.period[2] - 40 + 10 * Number(h)
<1>1. PICK y : y = h.period[2]
  OBVIOUS
<1>2. y \in Int
  BY <1>1 DEF TrueFigure, OwnLabel
<1>3. ASSUME Annual(h) PROVE h.end = 40 * y
  <2>1. h.end = 40 * y - 40 + 10 * 4
    BY <1>1, <1>3 DEF OwnLabel, LabelEnd, EndOf
  <2> QED BY <1>2, <2>1
<1>4. ASSUME Quarterly(h) PROVE h.end = 40 * y - 40 + 10 * Number(h)
  BY <1>1, <1>4, NumberIs DEF OwnLabel, LabelEnd, EndOf
<1> QED BY <1>1, <1>2, <1>3, <1>4

(* An annual value is the year that ends with it.                          *)
LEMMA AnnualIs ==
  ASSUME NEW i, TrueYears(i), NEW a, TrueFigure(i, a), Annual(a), OwnLabel(a)
  PROVE  /\ YearEnds(a.end) \in SUBSET (DOMAIN Truth[i])
         /\ a.quarter = Sum(i, a.end - 40, a.end)
<1>1. PICK w, S, e : w = Truth[i] /\ S = DOMAIN Truth[i] /\ e = a.end
  OBVIOUS
<1>2. IsFiniteSet(S) /\ \A q \in S : q \in Int /\ q % 10 = 0
  BY <1>1 DEF TrueYears
<1>3. /\ YearEnds(e) = {e - 30, e - 20, e - 10, e} /\ YearEnds(e) \subseteq S /\ e \in S
      /\ a.quarter = Revenue(i, YearEnds(e))
  BY <1>1 DEF TrueFigure, YearEnds
<1>4. e \in Int /\ e % 10 = 0
  BY <1>2, <1>3
<1>5. Between(i, e - 40, e) = {e - 30, e - 20, e - 10, e}
  <2>1. ASSUME NEW q \in Between(i, e - 40, e) PROVE q \in {e - 30, e - 20, e - 10, e}
    <3>1. q \in Int /\ q % 10 = 0 /\ e - 40 < q /\ q <= e
      BY <1>1, <1>2 DEF Between
    <3>2. PICK z \in Int : q = 10 * z
      BY <3>1, Tens
    <3>3. PICK y \in Int : e = 10 * y
      BY <1>4, Tens
    <3>4. z = y - 3 \/ z = y - 2 \/ z = y - 1 \/ z = y
      BY <3>1, <3>2, <3>3
    <3> QED BY <3>2, <3>3, <3>4
  <2>2. \A q \in {e - 30, e - 20, e - 10, e} : q \in S /\ e - 40 < q /\ q <= e
    BY <1>3, <1>4
  <2> QED BY <1>1, <2>1, <2>2 DEF Between
<1>6. IsFiniteSet(YearEnds(e))
  BY <1>2, <1>3, FS_Subset
<1>7. a.quarter = SumOn(w, YearEnds(e))
  BY <1>1, <1>3, <1>6, RevenueIs
<1> QED BY <1>1, <1>3, <1>5, <1>7 DEF Sum

(* Both reads: known rows of one period each, the newest filing of an end. *)
ReadOf(hs, t, d) ==
  /\ \A h \in hs : /\ h \in Known(facts, t, d) /\ h.metric = "revenue" /\ h.quarter # None
  /\ \A h, g \in hs : h.end = g.end => g.filed <= h.filed

LEMMA ReadsAre ==
  ASSUME NEW t, NEW d
  PROVE  /\ ReadOf(History(facts, t, d, "revenue"), t, d)
         /\ ReadOf(FundamentalHistory(facts, t, d, "revenue"), t, d)
  BY Zenon DEF ReadOf, History, FundamentalHistory

(* The rows a decision reads of one issuer are true and have no double.    *)
LEMMA HistoryTrue ==
  ASSUME FactsIInv, TrueFigures, NEW t, NEW d, NEW i \in Issuers, OwnerOn(t, d) = i,
         NEW hs, ReadOf(hs, t, d)
  PROVE  TrueYears(i) /\ TrueHistory(i, hs)
<1>1. TrueYears(i)
  BY DEF TrueFigures, TrueYears
<1>2. \A h, g \in hs : h.end = g.end => g.filed <= h.filed
  BY DEF ReadOf
<1>3. i \notin {"gap", "ambiguous", "unreviewed"} /\ i # NoIssuer
  BY FactsAssumption DEF TrueFigures
<1>4. Routed(facts, t, d) = {facts[k].row : k \in {q \in DOMAIN facts : facts[q].issuer = i}}
  BY <1>3 DEF Routed
<1>5. ASSUME NEW h \in hs
      PROVE  /\ TrueFigure(i, h)
             /\ \E k \in DOMAIN facts : k = <<Ticker[i], h.end, h.filed, "revenue">> /\ h = facts[k].row
  <2>1. h \in Routed(facts, t, d) /\ h.metric = "revenue" /\ h.quarter # None
    BY DEF ReadOf, Known
  <2>2. PICK k \in DOMAIN facts : facts[k].issuer = i /\ h = facts[k].row
    BY <1>4, <2>1
  <2>3. RowKept(k, facts[k])
    BY DEF FactsIInv, RowsKept
  <2>4. k = <<Ticker[i], h.end, h.filed, "revenue">>
    BY <1>3, <2>1, <2>2, <2>3 DEF RowKept
  <2>5. PICK r : r = facts[k].snapshot
    OBVIOUS
  <2>6. /\ facts[k].parser \in Parsers /\ r \in DOMAIN runs /\ runs[r].issuer = i
        /\ h \in Parsed[i][runs[r].response][facts[k].parser].rows
    BY <1>3, <2>2, <2>3, <2>5 DEF RowKept
  <2>7. runs[r].response \in DOMAIN Feed[i]
    <3>1. PICK j \in Issuers : runs[r] \in RunOf(j)
      BY <2>6 DEF FactsIInv, RunsKept
    <3> QED BY <2>6, <3>1 DEF RunOf
  <2>8. TrueFigure(i, h)
    BY <2>1, <2>6, <2>7 DEF TrueFigures
  <2> QED BY <2>2, <2>4, <2>8
<1>6. \A h \in hs : h.end \in DOMAIN Truth[i]
  BY <1>5 DEF TrueFigure
<1>7. ASSUME NEW h \in hs, NEW g \in hs, h.end = g.end PROVE h = g
  <2>1. h.filed \in Int /\ g.filed \in Int
    BY <1>5 DEF TrueFigure
  <2>2. g.filed <= h.filed /\ h.filed <= g.filed
    BY <1>2, <1>7
  <2>3. h.filed = g.filed
    BY <2>1, <2>2
  <2> QED BY <1>5, <1>7, <2>3
<1>8. IsFiniteSet(hs)
  <2>1. PICK f : f = [h \in hs |-> h.end]
    OBVIOUS
  <2>2. f \in Injection(hs, DOMAIN Truth[i])
    BY <1>6, <1>7, <2>1 DEF Injection, IsInjective
  <2> QED BY <1>1, <2>2, FS_Injection DEF TrueYears
<1>9. \A h \in hs : h.end \in Int
  BY <1>1, <1>6 DEF TrueYears
<1>10. Ordered(hs)
  BY <1>7, <1>8, <1>9 DEF Ordered
<1> QED BY <1>1, <1>5, <1>10 DEF TrueHistory

Newer(m, hs) == m \in hs /\ \A h \in hs : h.end <= m.end

LEMMA NewestOne ==
  ASSUME NEW hs, Ordered(hs), hs # {}
  PROVE  \E m : Newer(m, hs) /\ Before(m, hs) = Cardinality(hs) - 1
<1>1. PICK n : n = Cardinality(hs)
  OBVIOUS
<1>2. n \in Nat /\ n # 0
  BY <1>1, FS_CardinalityType, FS_EmptySet DEF Ordered
<1>3. n - 1 \in 0..(n - 1)
  BY <1>2
<1>4. PICK m \in hs : Before(m, hs) = n - 1
  BY <1>1, <1>3, Ranks
<1>5. ASSUME NEW h \in hs PROVE h.end <= m.end
  <2>1. Before(h, hs) \in 0..(n - 1) /\ (m.end < h.end <=> Before(m, hs) < Before(h, hs))
    BY <1>1, Ranks
  <2>2. ~ (Before(m, hs) < Before(h, hs))
    BY <1>2, <1>4, <2>1
  <2>3. h.end \in Int /\ m.end \in Int
    BY DEF Ordered
  <2> QED BY <2>1, <2>2, <2>3
<1> QED BY <1>1, <1>4, <1>5 DEF Newer

(* Four quarters whose labels follow one another end ten days apart.       *)
LEMMA FourAre ==
  ASSUME NEW hs, Ordered(hs), NEW n, n = Cardinality(hs), n >= 4,
         NEW four, four = {h \in hs : Before(h, hs) >= n - 4}
  PROVE  \E a, b, c, d \in hs :
           /\ four = {a, b, c, d} /\ Newer(d, hs)
           /\ Before(a, four) = 0 /\ Before(b, four) = 1 /\ Before(c, four) = 2 /\ Before(d, four) = 3
<1>1. n \in Nat
  BY Ranks
<1>2. /\ \A h \in hs : Before(h, hs) \in 0..(n - 1)
      /\ \A h, g \in hs : h.end < g.end <=> Before(h, hs) < Before(g, hs)
      /\ \A r \in 0..(n - 1) : \E h \in hs : Before(h, hs) = r
  BY Ranks
<1>3. n - 4 \in 0..(n - 1) /\ n - 3 \in 0..(n - 1) /\ n - 2 \in 0..(n - 1) /\ n - 1 \in 0..(n - 1)
  BY <1>1
<1>4. PICK a \in hs : Before(a, hs) = n - 4
  BY <1>2, <1>3
<1>5. PICK b \in hs : Before(b, hs) = n - 3
  BY <1>2, <1>3
<1>6. PICK c \in hs : Before(c, hs) = n - 2
  BY <1>2, <1>3
<1>7. PICK d \in hs : Before(d, hs) = n - 1
  BY <1>2, <1>3
<1>8. ASSUME NEW h \in hs, NEW g \in hs, Before(h, hs) = Before(g, hs) PROVE h = g
  <2>1. Before(h, hs) \in Int
    BY <1>2
  <2>2. ~ (h.end < g.end) /\ ~ (g.end < h.end)
    BY <1>2, <1>8, <2>1
  <2> QED BY <2>2 DEF Ordered
<1>9. a \in four /\ b \in four /\ c \in four /\ d \in four
  BY <1>1, <1>4, <1>5, <1>6, <1>7
<1>10. ASSUME NEW h \in four PROVE h \in {a, b, c, d}
  <2>1. PICK r : r = Before(h, hs)
    OBVIOUS
  <2>2. h \in hs /\ r \in 0..(n - 1) /\ r >= n - 4
    BY <1>2, <2>1
  <2>3. r = n - 4 \/ r = n - 3 \/ r = n - 2 \/ r = n - 1
    BY <1>1, <2>2
  <2> QED BY <1>4, <1>5, <1>6, <1>7, <1>8, <2>1, <2>2, <2>3
<1>11. four = {a, b, c, d}
  BY <1>9, <1>10
<1>12. a.end < b.end /\ b.end < c.end /\ c.end < d.end
  <2>1. n - 4 < n - 3 /\ n - 3 < n - 2 /\ n - 2 < n - 1
    BY <1>1
  <2> QED BY <1>2, <1>4, <1>5, <1>6, <1>7, <2>1
<1>13. Newer(d, hs)
  <2>1. ASSUME NEW h \in hs PROVE h.end <= d.end
    <3>1. ~ (Before(d, hs) < Before(h, hs))
      BY <1>1, <1>2, <1>7
    <3>2. ~ (d.end < h.end) /\ d.end \in Int /\ h.end \in Int
      BY <1>2, <3>1 DEF Ordered
    <3> QED BY <3>2
  <2> QED BY <1>7, <2>1 DEF Newer
<1>14. PICK k : k = Cardinality(four)
  OBVIOUS
<1>15. Ordered(four)
  BY OrderedSome
<1>16. /\ k \in Nat
       /\ \A h \in four : Before(h, four) \in 0..(k - 1)
       /\ \A h, g \in four : h.end < g.end <=> Before(h, four) < Before(g, four)
       /\ \A r \in 0..(k - 1) : \E h \in four : Before(h, four) = r
  BY <1>14, <1>15, Ranks
<1>17. PICK p, q, r, s : /\ p = Before(a, four) /\ q = Before(b, four)
                         /\ r = Before(c, four) /\ s = Before(d, four)
  OBVIOUS
<1>18. /\ p \in 0..(k - 1) /\ q \in 0..(k - 1) /\ r \in 0..(k - 1) /\ s \in 0..(k - 1)
       /\ p < q /\ q < r /\ r < s
  BY <1>9, <1>12, <1>16, <1>17
<1>19. \A x \in 0..(k - 1) : x = p \/ x = q \/ x = r \/ x = s
  BY <1>11, <1>16, <1>17
<1>20. 0 \in 0..(k - 1) /\ 1 \in 0..(k - 1) /\ 2 \in 0..(k - 1) /\ 3 \in 0..(k - 1)
  BY <1>16, <1>18
<1>21. p = 0 /\ q = 1 /\ r = 2 /\ s = 3
  <2>1. p = 0
    BY <1>16, <1>18, <1>19, <1>20
  <2>2. q = 1
    BY <1>16, <1>18, <1>19, <1>20, <2>1
  <2>3. r = 2
    BY <1>16, <1>18, <1>19, <1>20, <2>1, <2>2
  <2> QED BY <1>16, <1>18, <1>19, <1>20, <2>1, <2>2, <2>3
<1> QED BY <1>11, <1>13, <1>17, <1>21

Fiscal(h) == 4 * h.period[2] + Number(h)

LEMMA FourQuartersIs ==
  ASSUME NEW hs, FourQuarters(hs) # None, \A h \in hs : ~ Annual(h)
  PROVE  /\ LastFour(hs) = {h \in hs : Before(h, hs) >= Cardinality(hs) - 4}
         /\ Cardinality(hs) >= 4 /\ \A h \in LastFour(hs) : Quarterly(h)
         /\ \A h, g \in LastFour(hs) : Fiscal(h) - Fiscal(g) = Before(h, LastFour(hs)) - Before(g, LastFour(hs))
         /\ FourQuarters(hs) = Total(LastFour(hs))
<1>1. {h \in hs : ~ Annual(h)} = hs
  OBVIOUS
<1> QED BY <1>1 DEF FourQuarters, LastFour, Fiscal

(* Without an annual value: the last four quarters are the year.           *)
LEMMA FourTrue ==
  ASSUME NEW i, TrueYears(i), NEW hs, TrueHistory(i, hs), \A h \in hs : ~ Annual(h),
         FourQuarters(hs) # None, \A h \in LastFour(hs) : OwnLabel(h)
  PROVE  \E m : Newer(m, hs) /\ FourQuarters(hs) = Sum(i, m.end - 40, m.end)
<1>1. PICK four, n : four = LastFour(hs) /\ n = Cardinality(hs)
  OBVIOUS
<1>2. /\ n >= 4 /\ \A h \in four : Quarterly(h)
      /\ \A h, g \in four : Fiscal(h) - Fiscal(g) = Before(h, four) - Before(g, four)
      /\ FourQuarters(hs) = Total(four)
  BY <1>1, FourQuartersIs
<1>3. four = {h \in hs : Before(h, hs) >= n - 4} /\ Ordered(hs)
  BY <1>1, FourQuartersIs DEF TrueHistory
<1>4. PICK a, b, c, d \in hs :
           /\ four = {a, b, c, d} /\ Newer(d, hs)
           /\ Before(a, four) = 0 /\ Before(b, four) = 1 /\ Before(c, four) = 2 /\ Before(d, four) = 3
  BY <1>1, <1>2, <1>3, FourAre
<1>5. ASSUME NEW h \in four
      PROVE  Fiscal(h) \in Int /\ h.end = 10 * Fiscal(h) - 40
  <2>1. Quarterly(h) /\ h \in hs
    BY <1>2, <1>3
  <2>2. TrueFigure(i, h) /\ OwnLabel(h) /\ Number(h) \in 1..4
    BY <1>1, <2>1, NumberIs DEF TrueHistory
  <2>3. PICK y, q : y = h.period[2] /\ q = Number(h)
    OBVIOUS
  <2>4. y \in Int /\ q \in Int /\ h.end = 40 * y - 40 + 10 * q
    BY <2>1, <2>2, <2>3, OwnIs
  <2>5. 40 * y - 40 + 10 * q = 10 * (4 * y + q) - 40 /\ 4 * y + q \in Int
    BY <2>4
  <2> QED BY <2>3, <2>4, <2>5 DEF Fiscal
<1>6. PICK fa, fb, fc, fd : fa = Fiscal(a) /\ fb = Fiscal(b) /\ fc = Fiscal(c) /\ fd = Fiscal(d)
  OBVIOUS
<1>7. fa \in Int /\ fb \in Int /\ fc \in Int /\ fd \in Int
      /\ a.end = 10 * fa - 40 /\ b.end = 10 * fb - 40 /\ c.end = 10 * fc - 40 /\ d.end = 10 * fd - 40
  BY <1>4, <1>5, <1>6
<1>8. fb - fa = 1 - 0 /\ fc - fa = 2 - 0 /\ fd - fa = 3 - 0
  BY <1>2, <1>4, <1>6
<1>9. PICK from : from = 10 * fa - 50
  OBVIOUS
<1>10. from \in Int /\ a.end = from + 10 * 1 /\ b.end = from + 10 * 2 /\ c.end = from + 10 * 3
       /\ d.end = from + 10 * 4
  BY <1>7, <1>8, <1>9
<1>11. \E z \in Int : from = 10 * z
  <2>1. fa - 5 \in Int /\ from = 10 * (fa - 5)
    BY <1>7, <1>9
  <2> QED BY <2>1
<1>12. 1 \in 1..4 /\ 2 \in 1..4 /\ 3 \in 1..4 /\ 4 \in 1..4
  OBVIOUS
<1>13. \A h \in four : \E k \in 1..4 : h.end = from + 10 * k
  BY <1>4, <1>10, <1>12
<1>14. \A k \in 1..4 : \E h \in four : h.end = from + 10 * k
  <2> SUFFICES ASSUME NEW k \in 1..4 PROVE \E h \in four : h.end = from + 10 * k
    OBVIOUS
  <2>1. k = 1 \/ k = 2 \/ k = 3 \/ k = 4
    OBVIOUS
  <2> QED BY <1>4, <1>10, <2>1
<1>15. TrueHistory(i, four) /\ \A h \in four : ~ Annual(h)
  BY <1>3, OrderedSome DEF TrueHistory
<1>16. Total(four) = Sum(i, from, from + 10 * 4)
  <2>1. PICK k \in Nat : k = 4
    OBVIOUS
  <2>2. Following(four, from, k)
    BY <1>11, <1>13, <1>14, <1>15, <2>1 DEF Following
  <2>3. from \in Int /\ TrueHistory(i, four)
    BY <1>10, <1>15
  <2>4. Total(four) = Sum(i, from, from + 10 * k)
    BY <2>1, <2>2, <2>3, TotalBetween
  <2> QED BY <2>1, <2>4
<1>17. from + 10 * 4 = d.end /\ from = d.end - 40
  BY <1>10
<1> QED BY <1>2, <1>4, <1>16, <1>17

(* The quarters after an annual value, and the same ones of its own year.  *)
Post(hs, a) == {h \in hs : h.end > a.end /\ ~ Annual(h)}
PriorOf(hs, a, h) ==
  {g \in hs : g.end <= a.end /\ Quarterly(g) /\ g.period = <<h.period[1], a.period[2]>>}
InLine(hs, a) == \A h \in Post(hs, a) : /\ Quarterly(h) /\ h.period[2] = a.period[2] + 1
                                        /\ Number(h) = Before(h, Post(hs, a)) + 1
Rolled(hs, a) ==
  a.period[2] # None /\ Cardinality(Post(hs, a)) <= 4 /\ InLine(hs, a)
    /\ \A h \in Post(hs, a) : Cardinality(PriorOf(hs, a, h)) = 1
PriorRows(hs, a) == UNION {PriorOf(hs, a, h) : h \in Post(hs, a)}

LEMMA TrailingIs ==
  ASSUME NEW hs
  PROVE  TrailingYear(hs) =
           IF hs = {} THEN None
           ELSE IF Annuals(hs) = {} THEN FourQuarters(hs)
           ELSE IF Post(hs, LastAnnual(hs)) = {} THEN LastAnnual(hs).quarter
           ELSE IF Rolled(hs, LastAnnual(hs))
                THEN LastAnnual(hs).quarter + Total(Post(hs, LastAnnual(hs)))
                       - Total(PriorRows(hs, LastAnnual(hs)))
                ELSE None
BY Zenon DEF TrailingYear, RollForward, AfterAnnual, InOrder, Prior, PriorYear, Post, PriorOf, Rolled,
             InLine, PriorRows

(* A value is the year up to the last end, and what other labels stand for.*)
YearBut(i, hs, value, labels) ==
  /\ labels \in SUBSET (DOMAIN Truth[i])
  /\ \E m : Newer(m, hs) /\ value = Sum(i, m.end - 40, m.end) + SumOn(Truth[i], labels)

(* After an annual value: what followed it, less what it began with, but   *)
(* that a repeated row stands for itself and not for the one of its label. *)
LEMMA RolledTrue ==
  ASSUME NEW i, TrueYears(i), NEW hs, TrueHistory(i, hs), NEW a \in hs, Annual(a), OwnLabel(a),
         \A g \in hs : Annual(g) => g.end <= a.end, Rolled(hs, a), Post(hs, a) # {},
         \A h \in Post(hs, a) : OwnLabel(h),
         NEW rep, rep = {g \in PriorRows(hs, a) : ~ OwnLabel(g)},
         NEW labels, labels = {LabelEnd(g) : g \in rep}
  PROVE  YearBut(i, hs, (a.quarter + Total(Post(hs, a)) - Total(PriorRows(hs, a))) + Total(rep), labels)
<1>1. PICK post, y, k : post = Post(hs, a) /\ y = a.period[2] /\ k = Cardinality(post)
  OBVIOUS
<1>2. /\ y # None /\ k <= 4
      /\ \A h \in post : Quarterly(h) /\ h.period[2] = y + 1 /\ Number(h) = Before(h, post) + 1
      /\ \A h \in post : Cardinality(PriorOf(hs, a, h)) = 1
  BY <1>1 DEF Rolled, InLine
<1>3. post \in SUBSET hs /\ Ordered(hs) /\ Ordered(post) /\ TrueFigure(i, a)
  BY <1>1, OrderedSome DEF Post, TrueHistory
<1>4. y \in Int /\ a.end = 40 * y
  BY <1>1, <1>3, OwnIs
<1>5. /\ k \in Nat
      /\ \A h \in post : Before(h, post) \in 0..(k - 1)
      /\ \A h, g \in post : h.end < g.end <=> Before(h, post) < Before(g, post)
      /\ \A r \in 0..(k - 1) : \E h \in post : Before(h, post) = r
  BY <1>1, <1>3, Ranks
<1>6. PICK from, first : from = 40 * y /\ first = 40 * y - 40
  OBVIOUS
<1>7. /\ from \in Int /\ first \in Int /\ first = from - 40 /\ a.end = from
      /\ (\E z \in Int : from = 10 * z) /\ (\E z \in Int : first = 10 * z)
  <2>1. 4 * y \in Int /\ 4 * y - 4 \in Int /\ from = 10 * (4 * y) /\ first = 10 * (4 * y - 4)
    BY <1>4, <1>6
  <2>2. from \in Int /\ first \in Int /\ first = from - 40
    BY <1>4, <1>6
  <2>3. a.end = from
    BY <1>4, <1>6
  <2> QED BY <2>1, <2>2, <2>3
<1>8. ASSUME NEW h \in post PROVE Number(h) \in 1..k /\ ~ Annual(h) /\ h.end = from + 10 * Number(h)
  <2>1. Quarterly(h) /\ h.period[2] = y + 1 /\ TrueFigure(i, h) /\ OwnLabel(h)
    BY <1>1, <1>2, <1>3 DEF TrueHistory
  <2>2. PICK n, b : n = Number(h) /\ b = Before(h, post)
    OBVIOUS
  <2>3. n = b + 1 /\ b \in 0..(k - 1)
    BY <1>2, <1>5, <2>2
  <2>4. n \in 1..k
    BY <1>5, <2>3
  <2>5. h.end = 40 * (y + 1) - 40 + 10 * n
    BY <2>1, <2>2, OwnIs
  <2>6. h.end = from + 10 * n
    BY <1>4, <1>5, <1>6, <2>4, <2>5
  <2> QED BY <2>1, <2>2, <2>4, <2>6, NumberIs
<1>9. ASSUME NEW n \in 1..k PROVE \E h \in post : Number(h) = n
  <2>1. n - 1 \in 0..(k - 1) /\ (n - 1) + 1 = n
    BY <1>5
  <2>2. PICK h \in post : Before(h, post) = n - 1
    BY <1>5, <2>1
  <2> QED BY <1>2, <2>1, <2>2
<1>10. Total(post) = Sum(i, from, from + 10 * k)
  <2>1. /\ \A h \in post : \E n \in 1..k : h.end = from + 10 * n
        /\ \A n \in 1..k : \E h \in post : h.end = from + 10 * n
    BY <1>8, <1>9
  <2>2. Following(post, from, k)
    BY <1>7, <1>8, <2>1 DEF Following
  <2>3. TrueHistory(i, post) /\ from \in Int /\ k \in Nat
    BY <1>3, <1>5, <1>7 DEF TrueHistory
  <2> QED BY <2>2, <2>3, TotalBetween
<1>11. PICK prior, own : prior = PriorRows(hs, a) /\ own = prior \ rep
  OBVIOUS
<1>12. ASSUME NEW h \in post, NEW g \in PriorOf(hs, a, h)
       PROVE  /\ g \in hs /\ ~ Annual(g) /\ Number(g) = Number(h)
              /\ LabelEnd(g) = first + 10 * Number(h)
              /\ OwnLabel(g) <=> g.end = LabelEnd(g)
  <2>1. g \in hs /\ Quarterly(g) /\ g.period = <<h.period[1], y>>
    BY <1>1, <1>12 DEF PriorOf
  <2>2. g.period[1] = h.period[1] /\ g.period[2] = y
    BY <2>1
  <2>3. Number(g) = Number(h) /\ ~ Annual(g)
    BY <2>1, <2>2, NumberIs DEF Number
  <2>4. LabelEnd(g) = 40 * y - 40 + 10 * Number(h)
    BY <2>2, <2>3 DEF LabelEnd, EndOf
  <2>5. OwnLabel(g) <=> g.end = LabelEnd(g)
    BY <2>1 DEF OwnLabel, Labelled
  <2> QED BY <1>6, <2>1, <2>3, <2>4, <2>5
<1>13. ASSUME NEW h \in post PROVE \E g : PriorOf(hs, a, h) = {g}
  <2>1. Cardinality(PriorOf(hs, a, h)) = 1
    BY <1>2
  <2>2. IsFiniteSet(PriorOf(hs, a, h))
    <3>1. PriorOf(hs, a, h) \in SUBSET hs
      BY DEF PriorOf
    <3> QED BY <1>3, <3>1, FS_Subset DEF Ordered
  <2> QED BY <2>1, <2>2, FS_Singleton
<1>14. ASSUME NEW g \in prior
       PROVE  /\ g \in hs /\ ~ Annual(g) /\ Number(g) \in 1..k
              /\ LabelEnd(g) = first + 10 * Number(g)
              /\ OwnLabel(g) <=> g.end = LabelEnd(g)
  <2>1. PICK h \in post : g \in PriorOf(hs, a, h)
    BY <1>1, <1>11 DEF PriorRows
  <2> QED BY <1>8, <1>12, <2>1
<1>15. ASSUME NEW g \in prior, NEW f \in prior, LabelEnd(g) = LabelEnd(f) PROVE g = f
  <2>1. PICK h \in post : g \in PriorOf(hs, a, h)
    BY <1>1, <1>11 DEF PriorRows
  <2>2. PICK j \in post : f \in PriorOf(hs, a, j)
    BY <1>1, <1>11 DEF PriorRows
  <2>3. PICK p, q : p = Number(h) /\ q = Number(j)
    OBVIOUS
  <2>4. p \in 1..k /\ q \in 1..k /\ first + 10 * p = first + 10 * q
    BY <1>8, <1>12, <1>15, <2>1, <2>2, <2>3
  <2>5. p = q
    BY <1>5, <1>7, <2>4
  <2>6. h.end = j.end
    BY <1>8, <2>3, <2>5
  <2>7. h = j
    BY <1>3, <2>6 DEF Ordered
  <2> QED BY <1>13, <2>1, <2>2, <2>7
<1>16. PICK w, S : w = Truth[i] /\ S = DOMAIN Truth[i]
  OBVIOUS
<1>17. IsFiniteSet(S) /\ \A e \in S : e \in Int /\ e % 10 = 0 /\ w[e] \in Int
  BY <1>16 DEF TrueYears
<1>18. ASSUME NEW n \in 1..k PROVE first + 10 * n \in Between(i, first, first + 10 * k)
  <2>1. n = 1 \/ n = 2 \/ n = 3 \/ n = 4
    BY <1>2, <1>5
  <2>2. {from - 30, from - 20, from - 10, from} \subseteq S
    BY <1>3, <1>7, <1>16, AnnualIs DEF YearEnds
  <2>3. first + 10 * n \in S
    <3>1. \/ first + 10 * n = from - 30 \/ first + 10 * n = from - 20
          \/ first + 10 * n = from - 10 \/ first + 10 * n = from
      BY <1>7, <2>1
    <3> QED BY <2>2, <3>1
  <2>4. first < first + 10 * n /\ first + 10 * n <= first + 10 * k
    BY <1>5, <1>7
  <2> QED BY <1>16, <2>3, <2>4 DEF Between
<1>19. PICK line, owns : line = Between(i, first, first + 10 * k) /\ owns = EndsOf(own)
  OBVIOUS
<1>20. ASSUME NEW e \in line PROVE \E g \in prior : LabelEnd(g) = e
  <2>1. e \in Int /\ e % 10 = 0 /\ first < e /\ e <= first + 10 * k
    BY <1>16, <1>17, <1>19 DEF Between
  <2>2. PICK z \in Int : e = 10 * z
    BY <2>1, Tens
  <2>3. PICK x \in Int : first = 10 * x
    BY <1>7
  <2>4. z - x \in 1..k /\ e = first + 10 * (z - x)
    BY <1>5, <2>1, <2>2, <2>3
  <2>5. PICK n : n = z - x
    OBVIOUS
  <2>6. PICK h \in post : Number(h) = n
    BY <1>9, <2>4, <2>5
  <2>7. PICK g : g \in PriorOf(hs, a, h)
    BY <1>13
  <2>8. LabelEnd(g) = first + 10 * n
    BY <1>12, <2>6, <2>7
  <2>9. g \in prior
    BY <1>1, <1>11, <2>7 DEF PriorRows
  <2> QED BY <2>4, <2>5, <2>8, <2>9
<1>21. rep \in SUBSET prior /\ \A g \in own : g \in prior /\ g.end = LabelEnd(g)
  BY <1>11, <1>14
<1>22. owns = {LabelEnd(g) : g \in own}
  BY <1>19, <1>21 DEF EndsOf
<1>23. ASSUME NEW g \in prior PROVE LabelEnd(g) \in line
  BY <1>14, <1>18, <1>19
<1>24. owns \cup labels = line
  BY <1>11, <1>20, <1>21, <1>22, <1>23
<1>25. owns \cap labels = {}
  BY <1>11, <1>15, <1>21, <1>22
<1>26. line \in SUBSET S /\ owns \in SUBSET S /\ labels \in SUBSET S
  BY <1>16, <1>19, <1>24 DEF Between
<1>27. Sum(i, first, first + 10 * k) = SumOn(w, owns) + SumOn(w, labels)
  <2>1. SumOn(w, owns \cup labels) = SumOn(w, owns) + SumOn(w, labels)
    BY <1>17, <1>25, <1>26, SumUnion
  <2> QED BY <1>16, <1>19, <1>24, <2>1 DEF Sum
<1>28. prior \in SUBSET hs /\ own \in SUBSET hs /\ rep \in SUBSET hs
  BY <1>11, <1>14
<1>29. /\ TrueHistory(i, prior) /\ TrueHistory(i, own) /\ TrueHistory(i, rep)
       /\ \A g \in prior : ~ Annual(g)
  BY <1>3, <1>14, <1>28, OrderedSome DEF TrueHistory
<1>30. Total(prior) = Total(own) + Total(rep)
  <2>1. own \in SUBSET prior /\ rep \in SUBSET prior /\ prior = own \cup rep /\ own \cap rep = {}
    BY <1>11
  <2> QED BY <1>29, <2>1, TotalParts
<1>31. Total(own) = SumOn(w, owns) /\ Total(own) \in Int /\ Total(rep) \in Int
  <2>1. (\A g \in own : ~ Annual(g)) /\ (\A g \in rep : ~ Annual(g))
    BY <1>11, <1>21, <1>29
  <2> QED BY <1>16, <1>19, <1>29, <2>1, TotalByEnd
<1>32. PICK m \in post : Number(m) = k
  <2>1. k \in 1..k
    <3>1. PICK h \in post : TRUE
      BY <1>1
    <3> QED BY <1>5, <3>1
  <2> QED BY <1>9, <2>1
<1>33. m.end = from + 10 * k
  BY <1>8, <1>32
<1>34. Newer(m, hs)
  <2>1. ASSUME NEW h \in hs PROVE h.end <= m.end
    <3>1. h.end \in Int
      BY <1>3 DEF Ordered
    <3>2. CASE h \in post
      <4>1. PICK n : n = Number(h)
        OBVIOUS
      <4>2. n \in 1..k /\ h.end = from + 10 * n
        BY <1>8, <3>2, <4>1
      <4> QED BY <1>5, <1>7, <1>33, <4>2
    <3>3. CASE h \notin post
      <4>1. h.end <= a.end
        BY <1>1, <1>7, <3>1, <3>3 DEF Post
      <4> QED BY <1>5, <1>7, <1>33, <3>1, <4>1
    <3> QED BY <3>2, <3>3
  <2> QED BY <1>3, <1>32, <2>1 DEF Newer
<1>35. PICK e, s : e = from + 10 * k /\ s = first + 10 * k
  OBVIOUS
<1>36. e \in Int /\ s \in Int /\ s = e - 40 /\ first <= from /\ from <= e /\ first <= s /\ s <= e
  BY <1>2, <1>5, <1>7, <1>35
<1>37. a.quarter = Sum(i, first, from)
  BY <1>3, <1>7, AnnualIs
<1>38. /\ Sum(i, first, e) = Sum(i, first, from) + Sum(i, from, e)
       /\ Sum(i, first, e) = Sum(i, first, s) + Sum(i, s, e)
  BY <1>7, <1>36, SumBetween
<1>39. ASSUME NEW x, NEW z PROVE Sum(i, x, z) \in Int
  BY SumTyped DEF Sum, Between
<1>40. SumOn(w, labels) \in Int
  BY <1>16, <1>26, SumTyped
<1>41. (a.quarter + Total(post) - Total(prior)) + Total(rep) = Sum(i, s, e) + SumOn(w, labels)
  <2>1. PICK t, p, q, r, u : /\ t = Sum(i, first, e) /\ p = Sum(i, first, from) /\ q = Sum(i, from, e)
                             /\ r = Sum(i, first, s) /\ u = Sum(i, s, e)
    OBVIOUS
  <2>2. PICK o, v, l : o = Total(own) /\ v = Total(rep) /\ l = SumOn(w, labels)
    OBVIOUS
  <2>3. t \in Int /\ p \in Int /\ q \in Int /\ r \in Int /\ u \in Int /\ o \in Int /\ v \in Int /\ l \in Int
    BY <1>31, <1>39, <1>40, <2>1, <2>2
  <2>4. t = p + q /\ t = r + u
    BY <1>38, <2>1
  <2>5. r = o + l
    BY <1>27, <1>31, <1>35, <2>1, <2>2
  <2>6. PICK b, c, d : b = a.quarter /\ c = Total(post) /\ d = Total(prior)
    OBVIOUS
  <2>7. b = p /\ c = q /\ d = o + v
    BY <1>10, <1>30, <1>35, <1>37, <2>1, <2>2, <2>6
  <2>8. b + c - d + v = u + l
    BY <2>3, <2>4, <2>5, <2>7
  <2> QED BY <2>1, <2>2, <2>6, <2>8
<1>42. e = m.end /\ s = m.end - 40
  BY <1>33, <1>35, <1>36
<1> QED BY <1>1, <1>11, <1>16, <1>26, <1>34, <1>41, <1>42 DEF YearBut

(* The trailing year, whatever the labels of what it subtracts.            *)
LEMMA YearTrue ==
  ASSUME NEW i, TrueYears(i), NEW hs, TrueHistory(i, hs), TrailingYear(hs) # None,
         \A h \in Added(hs) : OwnLabel(h),
         NEW rep, rep = {g \in Subtracted(hs) : ~ OwnLabel(g)},
         NEW labels, labels = {LabelEnd(g) : g \in rep}
  PROVE  YearBut(i, hs, TrailingYear(hs) + Total(rep), labels)
<1>1. PICK annuals, a : annuals = Annuals(hs) /\ a = LastAnnual(hs)
  OBVIOUS
<1>2. TrailingYear(hs) =
        IF hs = {} THEN None
        ELSE IF annuals = {} THEN FourQuarters(hs)
        ELSE IF Post(hs, a) = {} THEN a.quarter
        ELSE IF Rolled(hs, a) THEN a.quarter + Total(Post(hs, a)) - Total(PriorRows(hs, a))
        ELSE None
  BY <1>1, TrailingIs
<1>3. Ordered(hs) /\ annuals \in SUBSET hs /\ Ordered(annuals)
  BY <1>1, OrderedSome DEF TrueHistory, Annuals
<1>4. ASSUME rep = {}, NEW m, Newer(m, hs), TrailingYear(hs) = Sum(i, m.end - 40, m.end)
      PROVE  YearBut(i, hs, TrailingYear(hs) + Total(rep), labels)
  <2>1. labels = {}
    BY <1>4
  <2>2. SumOn(Truth[i], labels) = 0
    BY <2>1, FS_EmptySet, SumStep
  <2>3. Total(rep) = 0
    <3>1. PICK v : v = [h \in rep |-> h.quarter]
      OBVIOUS
    <3>2. Total(rep) = SumOn(v, rep)
      BY <1>4, <3>1, FS_EmptySet, TotalIs
    <3> QED BY <1>4, <3>2, FS_EmptySet, SumStep
  <2>4. PICK x : x = Sum(i, m.end - 40, m.end)
    OBVIOUS
  <2>5. x \in Int
    BY <2>4, SumTyped DEF Sum, Between
  <2>6. x + 0 = x
    BY <2>5
  <2>7. TrailingYear(hs) + Total(rep) = Sum(i, m.end - 40, m.end) + SumOn(Truth[i], labels)
    BY <1>4, <2>2, <2>3, <2>4, <2>6
  <2> QED BY <1>4, <2>1, <2>7 DEF YearBut
<1>5. CASE annuals = {}
  <2>1. TrailingYear(hs) = FourQuarters(hs) /\ \A h \in hs : ~ Annual(h)
    BY <1>1, <1>2, <1>5 DEF Annuals
  <2>2. rep = {} /\ \A h \in LastFour(hs) : OwnLabel(h)
    BY <1>1, <1>5 DEF Added, Subtracted
  <2>3. PICK m : Newer(m, hs) /\ FourQuarters(hs) = Sum(i, m.end - 40, m.end)
    BY <2>1, <2>2, FourTrue
  <2> QED BY <1>4, <2>1, <2>2, <2>3
<1>6. CASE annuals # {}
  <2>1. a \in annuals /\ \A g \in annuals : g.end <= a.end
    <3>1. PICK m : Newer(m, annuals)
      BY <1>3, <1>6, NewestOne
    <3>2. m \in annuals /\ \A g \in annuals : g.end <= m.end
      BY <3>1 DEF Newer
    <3>3. a = CHOOSE h \in annuals : \A g \in annuals : g.end <= h.end
      BY <1>1 DEF LastAnnual
    <3> QED BY <3>2, <3>3, Zenon
  <2>2. a \in hs /\ Annual(a) /\ TrueFigure(i, a) /\ \A g \in hs : Annual(g) => g.end <= a.end
    BY <1>1, <1>3, <2>1 DEF Annuals, TrueHistory
  <2>3. /\ OwnLabel(a) /\ \A h \in Post(hs, a) : OwnLabel(h)
        /\ Subtracted(hs) = PriorRows(hs, a)
    <3>1. Added(hs) = {a} \cup Post(hs, a)
      BY <1>1, <1>6 DEF Added, AfterAnnual, Post
    <3>2. Subtracted(hs) = PriorRows(hs, a)
      <4>1. Subtracted(hs) = PriorYear(hs)
        BY <1>1, <1>6 DEF Subtracted
      <4>2. PriorYear(hs) = PriorRows(hs, LastAnnual(hs))
        BY Zenon DEF PriorYear, PriorRows, Prior, PriorOf, AfterAnnual, Post
      <4> QED BY <1>1, <4>1, <4>2
    <3> QED BY <3>1, <3>2
  <2>4. CASE Post(hs, a) = {}
    <3>1. TrailingYear(hs) = a.quarter
      BY <1>2, <1>6, <2>2, <2>4
    <3>2. a.quarter = Sum(i, a.end - 40, a.end)
      BY <2>2, <2>3, AnnualIs
    <3>3. ASSUME NEW h \in hs PROVE h.end <= a.end
      <4>1. h.end \in Int /\ a.end \in Int
        BY <1>3, <2>2 DEF Ordered
      <4>2. Annual(h) \/ ~ (h.end > a.end)
        BY <2>4 DEF Post
      <4> QED BY <2>2, <4>1, <4>2
    <3>4. Newer(a, hs)
      BY <2>2, <3>3 DEF Newer
    <3>5. rep = {}
      BY <2>3, <2>4 DEF PriorRows
    <3> QED BY <1>4, <3>1, <3>2, <3>4, <3>5
  <2>5. CASE Post(hs, a) # {}
    <3>1. Rolled(hs, a)
          /\ TrailingYear(hs) = a.quarter + Total(Post(hs, a)) - Total(PriorRows(hs, a))
      BY <1>2, <1>6, <2>2, <2>5
    <3>2. rep = {g \in PriorRows(hs, a) : ~ OwnLabel(g)}
      BY <2>3
    <3>3. YearBut(i, hs, (a.quarter + Total(Post(hs, a)) - Total(PriorRows(hs, a))) + Total(rep), labels)
      BY <2>2, <2>3, <2>5, <3>1, <3>2, RolledTrue
    <3> QED BY <3>1, <3>3
  <2> QED BY <2>4, <2>5
<1> QED BY <1>5, <1>6

YearEnd(hs) == Max({h.end : h \in hs})
YearUpTo(i, end) == Revenue(i, {e \in DOMAIN Truth[i] : end - 40 < e /\ e <= end})
Repeated(hs) == {g \in Subtracted(hs) : ~ OwnLabel(g)}
LabelsOf(gs) == {LabelEnd(g) : g \in gs}
YearRight(i, hs) ==
  (i \in Issuers /\ TrailingYear(hs) # None /\ \A h \in Added(hs) : OwnLabel(h)) =>
    TrailingYear(hs) + Total(Repeated(hs))
      = YearUpTo(i, YearEnd(hs)) + Revenue(i, LabelsOf(Repeated(hs)))

LEMMA YearIs ==
  ASSUME NEW i, TrueYears(i), NEW hs, TrueHistory(i, hs), TrailingYear(hs) # None,
         \A h \in Added(hs) : OwnLabel(h)
  PROVE  TrailingYear(hs) + Total(Repeated(hs))
           = YearUpTo(i, YearEnd(hs)) + Revenue(i, LabelsOf(Repeated(hs)))
<1>1. PICK rep, labels, end : rep = Repeated(hs) /\ labels = LabelsOf(rep) /\ end = YearEnd(hs)
  OBVIOUS
<1>2. rep = {g \in Subtracted(hs) : ~ OwnLabel(g)} /\ labels = {LabelEnd(g) : g \in rep}
  BY <1>1 DEF Repeated, LabelsOf
<1>3. YearBut(i, hs, TrailingYear(hs) + Total(rep), labels)
  BY <1>2, YearTrue
<1>4. PICK m : /\ Newer(m, hs)
               /\ TrailingYear(hs) + Total(rep) = Sum(i, m.end - 40, m.end) + SumOn(Truth[i], labels)
  BY <1>3 DEF YearBut
<1>5. end = m.end
  <2>1. PICK S, e : S = {h.end : h \in hs} /\ e = m.end
    OBVIOUS
  <2>2. e \in S /\ \A x \in S : x \in Int /\ x <= e
    BY <1>4, <2>1 DEF Newer, TrueHistory, Ordered
  <2>3. \A x \in S : e >= x
    BY <2>2
  <2>4. end = Max(S)
    BY <1>1, <2>1 DEF YearEnd
  <2>5. end \in S /\ \A x \in S : end >= x
    BY <2>2, <2>3, <2>4, Zenon DEF Max
  <2>6. end = e
    BY <2>2, <2>5
  <2> QED BY <2>1, <2>6
<1>6. PICK S : S = {e \in DOMAIN Truth[i] : end - 40 < e /\ e <= end}
  OBVIOUS
<1>7. IsFiniteSet(S) /\ S = Between(i, end - 40, end) /\ IsFiniteSet(labels)
  BY <1>3, <1>6, FS_Subset DEF Between, TrueYears, YearBut
<1>8. Revenue(i, S) = SumOn(Truth[i], S) /\ Revenue(i, labels) = SumOn(Truth[i], labels)
  BY <1>7, RevenueIs
<1>9. YearUpTo(i, end) = Sum(i, end - 40, end)
  BY <1>6, <1>7, <1>8 DEF YearUpTo, Sum
<1> QED BY <1>1, <1>4, <1>5, <1>8, <1>9

(* When every figure a parser gives a single period is true, a trailing    *)
(* year that adds rows under their own labels is the sum of the four       *)
(* quarters up to the last period the decision knows, except that each     *)
(* repeated row it subtracts stands for its own quarter and not for the    *)
(* one of its label: whatever the labels of the responses are, also the    *)
(* ones of a report's comparative quarters, for every set of issuers,      *)
(* shared and reassigned tickers, refreshes, repairs and activations, and  *)
(* for both reads (_ttm_sum_from_history of common.py).                    *)
THEOREM TrailingYearHolds ==
  ASSUME TrueFigures
  PROVE  FactsSpec => []TrailingYearTrue
<1>1. ASSUME FactsIInv PROVE TrailingYearTrue
  <2>1. ASSUME NEW t, NEW d, NEW hs,
               hs \in {History(facts, t, d, "revenue"), FundamentalHistory(facts, t, d, "revenue")}
        PROVE  YearRight(OwnerOn(t, d), hs)
    <3>1. SUFFICES ASSUME OwnerOn(t, d) \in Issuers, TrailingYear(hs) # None,
                          \A h \in Added(hs) : OwnLabel(h)
                   PROVE  TrailingYear(hs) + Total(Repeated(hs))
                            = YearUpTo(OwnerOn(t, d), YearEnd(hs))
                                + Revenue(OwnerOn(t, d), LabelsOf(Repeated(hs)))
      BY Zenon DEF YearRight
    <3>2. PICK i \in Issuers : i = OwnerOn(t, d)
      BY <3>1
    <3>3. ReadOf(hs, t, d)
      BY <2>1, ReadsAre
    <3>4. TrueYears(i) /\ TrueHistory(i, hs)
      BY <1>1, <3>2, <3>3, HistoryTrue
    <3>5. TrailingYear(hs) + Total(Repeated(hs)) = YearUpTo(i, YearEnd(hs)) + Revenue(i, LabelsOf(Repeated(hs)))
      BY <3>1, <3>4, YearIs
    <3> QED BY <3>2, <3>5
  <2>2. TrailingYearTrue =
          \A t \in {h.ticker : h \in TickerHistory}, d \in ReadDays :
            \A hs \in {History(facts, t, d, "revenue"), FundamentalHistory(facts, t, d, "revenue")} :
              YearRight(OwnerOn(t, d), hs)
    BY Zenon DEF TrailingYearTrue, YearRight, YearUpTo, YearEnd, Repeated, LabelsOf
  <2> QED BY <2>1, <2>2, Zenon
<1> QED BY <1>1, Inductive, PTL
=============================================================================
