--------------------------- MODULE ForwardRollover ---------------------------
(***************************************************************************)
(* The governed rollover of the forward trial: the activation transaction  *)
(* and its recovery (src/aios/forward_rollover_activation.py) over the     *)
(* write-once journal of src/aios/rollover_journal.py, for one reviewed    *)
(* plan.  An activation runs under the project maintenance lease; when it  *)
(* fails, its rollback runs after the lease was given up.  A process may   *)
(* die, or a system call may fail, at every step.                          *)
(*                                                                         *)
(* A write of a file is one step, which a fault may leave partly done:     *)
(* files are written in place, O_EXCL first and the bytes after it.        *)
(***************************************************************************)
EXTENDS Integers, Sequences, FiniteSets, FiniteSetsExt

CONSTANTS
  Attempt,          \* attempt ids; directories are read in the order of ids
  Process,          \* runs of forward-rollover and forward-rollover-recover
  TornWrites,       \* whether a fault may leave a partly written file
  FailingSteps,     \* steps of an activation or rollback that may raise
  PatientOperator,  \* recovery is started only when no activation is running
  PaperUse,         \* whether the paper account is marked meanwhile
  MaxFaults         \* bound: crashes and raised exceptions

ASSUME RolloverAssumption ==
  /\ Attempt \subseteq Nat \ {0} /\ IsFiniteSet(Attempt)
  /\ {TornWrites, PatientOperator, PaperUse} \subseteq BOOLEAN
  /\ MaxFaults \in Nat

VARIABLES
  active,   \* whose bytes the active trial file holds
  output,   \* the four files an activation publishes
  journal,  \* journal[a]: complete phase files of attempt a
  torn,     \* torn[a]: partly written phase files of attempt a
  account,  \* whether the paper account is the one of the reviewed plan
  lease,    \* holder of the project maintenance lease
  proc,     \* where each process is
  faults    \* faults so far

vars == <<active, output, journal, torn, account, lease, proc, faults>>
disk == <<active, output, journal, torn, account>>

Predecessor == 0
Absent == -1
Torn == -2
NoProcess == "none"
ASSUME NoProcessAssumption == NoProcess \notin Process

Archives == {"trial_archive", "proposal_archive"}
Output == Archives \cup {"successor_proposal", "staged_trial"}
Phase == {"prepared", "outputs_published", "active_swapped", "verified",
          "recovered_rolled_back"}
TerminalPhase == {"verified", "recovered_rolled_back"}
ActivationStep == {"prepare", "publish", "record_outputs", "swap", "record_swap",
                   "verify", "return"}
RollbackStep == {"rollback", "restore"}
RecoveryStep == {"scanned", "reconcile", "finish"}
Step == ActivationStep \cup RollbackStep \cup RecoveryStep \cup {"idle", "remove", "close"}

PublicationOrder == <<"trial_archive", "proposal_archive", "successor_proposal",
                      "staged_trial">>

RemovalOrder == <<"staged_trial", "successor_proposal", "proposal_archive",
                  "trial_archive">>

\* seen: the journal as recovery read it, before it asked for the lease.
ProcState == [pc : Step, attempt : Attempt \cup {0}, n : 1..5,
              seen : [Attempt -> SUBSET Phase], todo : SUBSET Attempt]
Idle == [pc |-> "idle", attempt |-> 0, n |-> 1,
         seen |-> [a \in Attempt |-> {}], todo |-> {}]

TypeOK ==
  /\ active \in Attempt \cup {Predecessor}
  /\ output \in [Output -> Attempt \cup {Predecessor, Absent, Torn}]
  /\ journal \in [Attempt -> SUBSET Phase] /\ torn \in [Attempt -> SUBSET Phase]
  /\ account \in {"reviewed", "changed"}
  /\ lease \in Process \cup {NoProcess}
  /\ proc \in [Process -> ProcState]
  /\ faults \in 0..MaxFaults

Init ==
  /\ active = Predecessor
  /\ output = [o \in Output |-> Absent]
  /\ journal = [a \in Attempt |-> {}] /\ torn = [a \in Attempt |-> {}]
  /\ account = "reviewed"
  /\ lease = NoProcess
  /\ proc = [p \in Process |-> Idle]
  /\ faults = 0

-----------------------------------------------------------------------------
(* What the files say.                                                     *)

\* Both archives hold the predecessor's bytes, the other two the attempt's.
Prepared(o, a) == IF o \in Archives THEN Predecessor ELSE a
Exact(o, a) == output[o] = Prepared(o, a)

Directories == {a \in Attempt : journal[a] # {} \/ torn[a] # {}}

\* validate_attempt_directory: every file readable, no phase without those it
\* rests on, nothing after a terminal phase.
Valid(a) ==
  /\ torn[a] = {} /\ "prepared" \in journal[a]
  /\ "active_swapped" \in journal[a] => "outputs_published" \in journal[a]
  /\ "verified" \in journal[a] => "active_swapped" \in journal[a]
  /\ ~TerminalPhase \subseteq journal[a]

Terminal(phases) == phases \cap TerminalPhase # {}

\* Fault: an incomplete attempt does not keep the next one from starting.
NothingIncomplete_Unchecked == TRUE

\* _require_no_incomplete_attempts
NothingIncomplete == \A a \in Directories : Valid(a) /\ Terminal(journal[a])

\* _verify_recovery_successor, for the active successor of attempt a.
Backed(a) ==
  /\ \A o \in Output \ {"staged_trial"} : Exact(o, a)
  /\ account = "reviewed"

\* _validate_terminal_state against the verdict that recovery read.
TerminalHolds(a, phases) ==
  /\ account = "reviewed"
  /\ IF "verified" \in phases THEN active = a /\ Backed(a)
     ELSE active = Predecessor /\ \A o \in Output : output[o] = Absent

-----------------------------------------------------------------------------
(* Steps of a process.                                                     *)

Goto(p, step) == proc' = [proc EXCEPT ![p].pc = step]
End(p) ==
  /\ proc' = [proc EXCEPT ![p] = Idle]
  /\ lease' = IF lease = p THEN NoProcess ELSE lease

Exists(a, phase) == phase \in journal[a] \cup torn[a]
Record(a, phase) ==
  /\ ~Exists(a, phase)
  /\ journal' = [journal EXCEPT ![a] = @ \cup {phase}]

\* execute_forward_rollover_from_plan up to the backup and the candidate: the
\* plan is the one reviewed, so its sources are unchanged and no output exists.
Begin(p, a) ==
  /\ proc[p].pc = "idle" /\ lease = NoProcess
  /\ a \notin Directories /\ \A q \in Process : proc[q].attempt # a
  /\ NothingIncomplete
  /\ active = Predecessor /\ account = "reviewed"
  /\ \A o \in Output : output[o] = Absent
  /\ lease' = p
  /\ proc' = [proc EXCEPT ![p].pc = "prepare", ![p].attempt = a]
  /\ UNCHANGED <<disk, faults>>

RecordPrepared(p) ==
  /\ proc[p].pc = "prepare"
  /\ Record(proc[p].attempt, "prepared")
  /\ Goto(p, "publish")
  /\ UNCHANGED <<active, output, torn, account, lease, faults>>

\* _publish_rollover_outputs: one file per step.
Publish(p) ==
  /\ proc[p].pc = "publish" /\ proc[p].n <= Len(PublicationOrder)
  /\ LET o == PublicationOrder[proc[p].n] IN
       /\ output[o] = Absent
       /\ output' = [output EXCEPT ![o] = Prepared(o, proc[p].attempt)]
  /\ proc' = [proc EXCEPT ![p].n = @ + 1]
  /\ UNCHANGED <<active, journal, torn, account, lease, faults>>

RecordOutputs(p) ==
  /\ proc[p].pc = "publish" /\ proc[p].n > Len(PublicationOrder)
  /\ \A o \in Output : Exact(o, proc[p].attempt)
  /\ Record(proc[p].attempt, "outputs_published")
  /\ Goto(p, "swap")
  /\ UNCHANGED <<active, output, torn, account, lease, faults>>

\* _final_activation_recheck passed; os.replace installs the staged trial.
Swap(p) ==
  /\ proc[p].pc = "swap"
  /\ \A o \in Output : Exact(o, proc[p].attempt)
  /\ active' = proc[p].attempt
  /\ output' = [output EXCEPT !["staged_trial"] = Absent]
  /\ Goto(p, "record_swap")
  /\ UNCHANGED <<journal, torn, account, lease, faults>>

RecordSwap(p) ==
  /\ proc[p].pc = "record_swap"
  /\ Record(proc[p].attempt, "active_swapped")
  /\ Goto(p, "verify")
  /\ UNCHANGED <<active, output, torn, account, lease, faults>>

\* _verify_successor, then the terminal phase.
RecordVerified(p) ==
  /\ proc[p].pc = "verify"
  /\ active = proc[p].attempt /\ Backed(proc[p].attempt)
  /\ Record(proc[p].attempt, "verified")
  /\ Goto(p, "return")
  /\ UNCHANGED <<active, output, torn, account, lease, faults>>

\* The successor is read once more for the result; the lease is released.
Return(p) ==
  /\ proc[p].pc = "return"
  /\ End(p)
  /\ UNCHANGED <<disk, faults>>

-----------------------------------------------------------------------------
(* _rollback_started_attempt, run by the process whose activation raised,  *)
(* once its lease and document locks were released.                        *)

ReadAuthority(p) ==
  /\ proc[p].pc = "rollback"
  /\ IF active = Predecessor THEN Goto(p, "remove") /\ UNCHANGED lease
     ELSE IF active = proc[p].attempt /\ Exact("trial_archive", proc[p].attempt)
     THEN Goto(p, "restore") /\ UNCHANGED lease
     ELSE End(p)
  /\ UNCHANGED <<disk, faults>>

\* _atomic_replace_bytes with the bytes of the archive.
Restore(p) ==
  /\ proc[p].pc = "restore"
  /\ active' = Predecessor
  /\ Goto(p, "remove")
  /\ UNCHANGED <<output, journal, torn, account, lease, faults>>

\* _remove_exact_outputs, shared with recovery: one file per step, refusing a
\* file that is not the one this attempt prepared.
Remove(p) ==
  /\ proc[p].pc = "remove" /\ proc[p].n <= Len(RemovalOrder)
  /\ LET o == RemovalOrder[proc[p].n] IN
       \/ /\ output[o] = Absent \/ Exact(o, proc[p].attempt)
          /\ output' = [output EXCEPT ![o] = Absent]
          /\ proc' = [proc EXCEPT ![p].n = @ + 1]
          /\ UNCHANGED lease
       \/ /\ output[o] # Absent /\ ~Exact(o, proc[p].attempt)
          /\ End(p)
          /\ UNCHANGED output
  /\ UNCHANGED <<active, journal, torn, account, faults>>

\* A process that recovers goes on with the next attempt it read.
NextAttempt(p) ==
  /\ proc' = [proc EXCEPT ![p].pc = "reconcile", ![p].attempt = 0, ![p].n = 1,
                          ![p].todo = @ \ {proc[p].attempt}]
  /\ UNCHANGED lease

\* The phase recovered_rolled_back; an existing one never equals the new one,
\* whose time differs, so it is a collision.
Close(p) ==
  /\ proc[p].pc = "remove" /\ proc[p].n > Len(RemovalOrder)
  /\ IF Exists(proc[p].attempt, "recovered_rolled_back")
     THEN End(p) /\ UNCHANGED journal
     ELSE /\ Record(proc[p].attempt, "recovered_rolled_back")
          /\ IF proc[p].todo = {} THEN End(p) ELSE NextAttempt(p)
  /\ UNCHANGED <<active, output, torn, account, faults>>

-----------------------------------------------------------------------------
(* recover_forward_rollover_from_plan                                      *)

\* The journals are read before the lease is asked for.
Scan(p) ==
  /\ proc[p].pc = "idle"
  /\ PatientOperator => \A q \in Process : proc[q].attempt = 0
  /\ Directories # {} /\ \A a \in Directories : Valid(a)
  /\ Cardinality({a \in Directories : ~Terminal(journal[a])}) <= 1
  /\ proc' = [proc EXCEPT ![p].pc = "scanned", ![p].seen = journal,
                          ![p].todo = Directories]
  /\ UNCHANGED <<disk, lease, faults>>

TakeLease(p) ==
  /\ proc[p].pc = "scanned"
  /\ IF lease = NoProcess THEN lease' = p /\ Goto(p, "reconcile") ELSE End(p)
  /\ UNCHANGED <<disk, faults>>

\* Fault: recovery believes the journal, not the active trial file.
PredecessorActive_ByJournal(p, a) == "active_swapped" \notin proc[p].seen[a]

PredecessorActive(p, a) == active = Predecessor

\* The next attempt of the plan in the order of directories.
Reconcile(p) ==
  /\ proc[p].pc = "reconcile"
  /\ IF proc[p].todo = {} THEN End(p)
     ELSE LET a == Min(proc[p].todo) IN
       IF Terminal(proc[p].seen[a])
       THEN IF TerminalHolds(a, proc[p].seen[a])
            THEN proc' = [proc EXCEPT ![p].todo = @ \ {a}] /\ UNCHANGED lease
            ELSE End(p)
       ELSE IF PredecessorActive(p, a)
       THEN /\ proc' = [proc EXCEPT ![p].pc = "remove", ![p].attempt = a]
            /\ UNCHANGED lease
       ELSE IF active = a /\ Backed(a)
       THEN /\ proc' = [proc EXCEPT ![p].pc = "finish", ![p].attempt = a]
            /\ UNCHANGED lease
       ELSE End(p)
  /\ UNCHANGED <<disk, faults>>

\* Fault: recovery goes straight to the verdict.
MissingPhase_Verdict(phases) == "verified"

MissingPhase(phases) ==
  IF "outputs_published" \notin phases THEN "outputs_published"
  ELSE IF "active_swapped" \notin phases THEN "active_swapped" ELSE "verified"

\* _recover_incomplete with the successor active: one missing phase per step.
Finish(p) ==
  /\ proc[p].pc = "finish"
  /\ LET a == proc[p].attempt
         phase == MissingPhase(proc[p].seen[a])
     IN  IF Exists(a, phase) THEN End(p) /\ UNCHANGED journal
         ELSE /\ Record(a, phase)
              /\ IF phase = "verified" THEN NextAttempt(p)
                 ELSE /\ proc' = [proc EXCEPT ![p].seen[a] = @ \cup {phase}]
                      /\ UNCHANGED lease
  /\ UNCHANGED <<active, output, torn, account, faults>>

-----------------------------------------------------------------------------
(* Faults and the other users of the paper files.                          *)

\* The phase file a process is about to write.
PendingPhase(p) ==
  LET s == proc[p] IN
  CASE s.pc = "prepare" -> {"prepared"}
    [] s.pc = "publish" /\ s.n > Len(PublicationOrder) -> {"outputs_published"}
    [] s.pc = "record_swap" -> {"active_swapped"}
    [] s.pc = "verify" -> {"verified"}
    [] s.pc = "remove" /\ s.n > Len(RemovalOrder) -> {"recovered_rolled_back"}
    [] s.pc = "finish" -> {MissingPhase(s.seen[s.attempt])}
    [] OTHER -> {}

\* The fault hits between two writes, or in the middle of one.
Interrupted(p) ==
  \/ UNCHANGED <<output, torn>>
  \/ /\ TornWrites
     /\ \E phase \in PendingPhase(p) :
          /\ ~Exists(proc[p].attempt, phase)
          /\ torn' = [torn EXCEPT ![proc[p].attempt] = @ \cup {phase}]
     /\ UNCHANGED output
  \/ /\ TornWrites
     /\ proc[p].pc = "publish" /\ proc[p].n <= Len(PublicationOrder)
     /\ output' = [output EXCEPT ![PublicationOrder[proc[p].n]] = Torn]
     /\ UNCHANGED torn

Crash(p) ==
  /\ proc[p].pc # "idle" /\ faults < MaxFaults
  /\ faults' = faults + 1
  /\ Interrupted(p)
  /\ End(p)
  /\ UNCHANGED <<active, journal, account>>

\* An exception: an activation that recorded its first phase rolls back, with
\* the lease released; anything else ends with an error message.
Fail(p) ==
  /\ proc[p].pc \in FailingSteps /\ faults < MaxFaults
  /\ faults' = faults + 1
  /\ Interrupted(p)
  /\ IF proc[p].pc \in ActivationStep \ {"prepare"}
     THEN /\ proc' = [proc EXCEPT ![p].pc = "rollback", ![p].n = 1]
          /\ lease' = NoProcess
     ELSE End(p)
  /\ UNCHANGED <<active, journal, account>>

\* paper-mark, under the lease of its own.
MarkAccount ==
  /\ PaperUse /\ lease = NoProcess /\ account = "reviewed"
  /\ account' = "changed"
  /\ UNCHANGED <<active, output, journal, torn, lease, proc, faults>>

-----------------------------------------------------------------------------

ActivationNext(p) ==
  \/ RecordPrepared(p) \/ Publish(p) \/ RecordOutputs(p) \/ Swap(p)
  \/ RecordSwap(p) \/ RecordVerified(p) \/ Return(p)
RollbackNext(p) == ReadAuthority(p) \/ Restore(p) \/ Remove(p) \/ Close(p)
RecoveryNext(p) == TakeLease(p) \/ Reconcile(p) \/ Finish(p)

Next ==
  \/ \E p \in Process :
       \/ \E a \in Attempt : Begin(p, a)
       \/ ActivationNext(p) \/ RollbackNext(p)
       \/ Scan(p) \/ RecoveryNext(p)
       \/ Crash(p) \/ Fail(p)
  \/ MarkAccount

Spec == Init /\ [][Next]_vars

\* A process that runs goes on; the operator repeats the recovery command.
Fairness ==
  \A p \in Process : WF_vars(ActivationNext(p) \/ RollbackNext(p) \/ RecoveryNext(p))
                     /\ WF_vars(Scan(p))
FairSpec == Spec /\ Fairness

-----------------------------------------------------------------------------
(* Properties.                                                             *)

\* The trial that is active can always be explained and undone: a successor is
\* never active without the exact archives of its predecessor, its proposal and
\* the record of their publication.
SuccessorBacked ==
  active # Predecessor =>
    /\ \A o \in Output \ {"staged_trial"} : Exact(o, active)
    /\ {"prepared", "outputs_published"} \subseteq journal[active]

\* "outputs_removed": once an attempt is recorded as rolled back, no file it
\* published is left and the predecessor, or a later attempt, is active.
RolledBackClean ==
  \A a \in Attempt : "recovered_rolled_back" \in journal[a] =>
    active # a /\ \A o \in Output \ Archives : output[o] # a

\* A verified activation is final: with the lease and document locks no other
\* command "races rollover" (FORWARD_ROLLOVER_V2_SPEC.md).
VerifiedStands ==
  [][\A a \in Attempt : "verified" \in journal[a] => active' = active]_vars

\* An attempt never has "evidence after a terminal phase" (rollover_journal.py).
OneVerdict == \A a \in Attempt : ~TerminalPhase \subseteq journal[a]

\* An attempt is settled once its journal is readable and has its verdict.
Settled(a) == Valid(a) /\ Terminal(journal[a])

\* What no recovery gets past: a file cut off in a write, an account that was
\* marked since, and the journal of an earlier attempt, which is compared with
\* the files of today.
Obstructed(a) ==
  \/ \E o \in Output : output[o] = Torn
  \/ \E b \in Attempt : torn[b] # {}
  \/ account = "changed"
  \/ \E b \in Directories : b < a

\* A repeated recovery settles every interrupted attempt that it can read.
RecoveryCompletes == \A a \in Attempt : a \in Directories ~> Settled(a) \/ Obstructed(a)

\* The documented recovery settles every interrupted attempt.
EveryAttemptSettles == \A a \in Attempt : a \in Directories ~> Settled(a)

\* The rollover switches authority at most once, and its verdicts are true.
Verdict(a) ==
  IF "recovered_rolled_back" \in journal[a] THEN "kept"
  ELSE IF "verified" \in journal[a] THEN "switched"
  ELSE IF a \in Directories THEN "open" ELSE "none"

Authority == INSTANCE AuthoritySwitch WITH
  authority <- active, verdict <- [a \in Attempt |-> Verdict(a)]
AuthorityPromise == Authority!SwitchSpec

\* Every value has its type, an active successor can be explained and undone,
\* and what was rolled back is gone: the invariant of activation, rollback and
\* recovery (execute_forward_rollover_from_plan).
RolloverInv == TypeOK /\ SuccessorBacked /\ RolledBackClean

=============================================================================
