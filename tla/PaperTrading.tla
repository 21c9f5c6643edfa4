----------------------------- MODULE PaperTrading -----------------------------
(***************************************************************************)
(* The paper account, its dated proposals and the forward trial            *)
(* (src/aios/paper.py, forward.py, autopilot.py) under the commands        *)
(* paper-propose, forward-freeze, forward-restart, paper-execute,          *)
(* paper-mark and autopilot, and a direct caller of the library that does  *)
(* not hold the maintenance lease of the commands.                         *)
(*                                                                         *)
(* Half days: session k is open during time 2k, and 2k+1 is the time from  *)
(* its close to the next open.  A document is replaced by one rename, and  *)
(* the last check before it is a step of its own.  The checks of data      *)
(* (readiness, evidence, risk) may refuse at any step: Refuse.             *)
(***************************************************************************)
EXTENDS Integers, Sequences, FiniteSets

CONSTANTS
  Leased,             \* commands: one at a time, by the maintenance lease
  Library,            \* direct callers, without the lease
  AutopilotConfirms,  \* values of --confirm-simulated given to autopilot
  Overwrites,         \* values of --replace given to paper-propose under a trial
  MaxTime,            \* bound: half days
  MaxProposals,       \* bound: proposals generated
  MaxVersion,         \* bound: changes of the account
  MaxPolicy           \* bound: changes of the frozen policy files

Process == Leased \cup Library

ASSUME PaperAssumption ==
  /\ Leased \cap Library = {} /\ AutopilotConfirms \cup Overwrites \subseteq BOOLEAN
  /\ {MaxTime, MaxProposals, MaxVersion, MaxPolicy} \subseteq Nat /\ MaxTime > 0

VARIABLES
  time,
  account,   \* [version, fills, last]: last is the date it is valued at
  files,     \* files[d]: the proposal document of decision date d
  trial,     \* the active forward trial
  archived,  \* trials that were replaced
  policy,    \* version of the frozen policy files
  nextId,    \* proposals and trials are dated by it
  proc

vars == <<time, account, files, trial, archived, policy, nextId, proc>>

Date == 0..(MaxTime \div 2)
Never == -1
NoFile == [id |-> Never]
NoTrial == [frozen |-> Never]

Proposal == [id : 0..MaxProposals, date : Date, basis : 0..MaxVersion, approved : BOOLEAN]
Fill == [proposal : Proposal, at : 0..MaxTime]
Account == [version : 0..MaxVersion, fills : Seq(Fill), last : {Never} \cup Date]
Trial == [frozen : 0..MaxProposals, start : Date, policy : 0..MaxPolicy,
          registered : SUBSET Proposal]

Op == {"none", "propose", "restart", "autopilot", "stage", "execute", "mark"}
Pc == {"idle", "create", "write", "created", "register", "enlist", "archive", "install",
       "execute", "mark", "commit", "staging"}
Idle == [op |-> "none", pc |-> "idle", date |-> Never, replace |-> FALSE,
         moment |-> Never, proposal |-> NoFile, account |-> [version |-> Never],
         trial |-> NoTrial, next |-> NoTrial]

Open(k) == 2 * k
Closed(k) == 2 * k + 1 <= time

TypeOK ==
  /\ time \in 0..MaxTime
  /\ account \in Account
  /\ files \in [Date -> Proposal \cup {NoFile}]
  /\ trial \in Trial \cup {NoTrial} /\ archived \subseteq Trial
  /\ policy \in 0..MaxPolicy /\ nextId \in 0..MaxProposals
  /\ \A p \in Process : proc[p].op \in Op /\ proc[p].pc \in Pc

Init ==
  /\ time = 1
  /\ account = [version |-> 0, fills |-> <<>>, last |-> Never]
  /\ files = [d \in Date |-> NoFile]
  /\ trial = NoTrial /\ archived = {} /\ policy = 0 /\ nextId = 0
  /\ proc = [p \in Process |-> Idle]

-----------------------------------------------------------------------------
(* Guards.                                                                 *)

At(p, pcs) == proc[p].pc \in pcs
Set(p, state) == proc' = [proc EXCEPT ![p] = state]
Go(p, pc) == Set(p, [proc[p] EXCEPT !.pc = pc])

Documents == <<account, files, trial, archived>>
Rest == <<time, policy, nextId>>

\* project_maintenance_lock
MayStart(p) ==
  At(p, {"idle"}) /\ (p \in Leased => \A q \in Leased : At(q, {"idle"}))

\* Fault: the account is written without its lock.
AccountFree_Always == TRUE

\* _paper_document_write_lock of the account, of the trial and of a proposal
AccountFree == \A q \in Process : ~At(q, {"execute", "mark", "commit"})
TrialFree == \A q \in Process : ~At(q, {"register", "enlist", "archive", "install"})
ProposalFree(d) == \A q \in Process : ~(At(q, {"write"}) /\ proc[q].date = d)

\* _proposal_generation_deadline, _proposal_execution_window
Prospective(d) == time < Open(d + 1)
InWindow(d, now) == Open(d + 1) + 1 <= now /\ now < Open(d + 2)

Executed(a) == {a.fills[i].proposal : i \in DOMAIN a.fills}

BaseIssues(t) ==
  \/ policy # t.policy
  \/ \E r \in t.registered : files[r.date] # r

UnregisteredIssues(t) ==
  \E d \in Date : files[d].id >= t.frozen /\ files[d] \notin t.registered

Ready(t) == ~BaseIssues(t) /\ ~UnregisteredIssues(t)

\* has_unresolved_registered_proposal
Unresolved == \E r \in trial.registered : r \notin Executed(account)

\* create_paper_proposal up to its first look at the store
Creatable(d, replace) ==
  /\ account.last # Never => account.last = d
  /\ Prospective(d)
  /\ replace \/ files[d] = NoFile

Creating(op, d, replace) ==
  [Idle EXCEPT !.op = op, !.pc = "create", !.date = d, !.replace = replace,
               !.account = account]

-----------------------------------------------------------------------------
(* The commands, up to their first write.                                  *)

\* paper-propose; without a trial it works unregistered.
StartPropose(p) == \E d \in Date, replace \in BOOLEAN :
  /\ MayStart(p) /\ p \in Leased
  /\ trial # NoTrial =>
       /\ Ready(trial) /\ ~Unresolved
       /\ replace \in Overwrites /\ ~(replace /\ files[d] # NoFile)
  /\ Creatable(d, replace)
  /\ Set(p, Creating("propose", d, replace))
  /\ UNCHANGED <<Documents, Rest>>

\* forward-restart
StartRestart(p) == \E d \in Date :
  /\ MayStart(p) /\ p \in Leased
  /\ trial # NoTrial /\ ~Ready(trial)
  /\ Creatable(d, FALSE)
  /\ Set(p, Creating("restart", d, FALSE))
  /\ UNCHANGED <<Documents, Rest>>

\* A direct caller that creates a proposal and registers it.
StartStage(p) == \E d \in Date :
  /\ MayStart(p) /\ p \in Library /\ Creatable(d, FALSE)
  /\ Set(p, Creating("stage", d, FALSE))
  /\ UNCHANGED <<Documents, Rest>>

\* forward-freeze
Freeze(p) == \E d \in Date :
  /\ MayStart(p) /\ p \in Leased
  /\ trial = NoTrial /\ files[d] # NoFile
  /\ files[d].approved /\ files[d].basis = account.version
  /\ trial' = [frozen |-> nextId, start |-> d, policy |-> policy,
               registered |-> {files[d]}]
  /\ UNCHANGED <<account, files, archived, Rest, proc>>

\* Fault: the policy files are not compared with the frozen ones.
Governed_AnyPolicy(d) ==
  /\ trial # NoTrial /\ ~UnregisteredIssues(trial) /\ files[d] \in trial.registered

\* require_registered_forward_proposal
Governed(d) ==
  /\ trial # NoTrial /\ Ready(trial) /\ files[d] \in trial.registered

\* _prepare_paper_execution; the book refuses a date it is not valued at.
Executable(d, now) ==
  /\ files[d] # NoFile
  /\ files[d].approved /\ files[d].basis = account.version
  /\ files[d] \notin Executed(account)
  /\ InWindow(d, now) /\ account.last \in {Never, d}

Executing(op, d, moment) ==
  [Idle EXCEPT !.op = op, !.pc = "execute", !.date = d, !.moment = moment,
               !.proposal = files[d], !.account = account]

\* paper-execute and the dashboard, or the library function they call.
StartExecute(p) == \E d \in Date :
  /\ MayStart(p) /\ AccountFree
  /\ p \in Leased => Governed(d)
  /\ Executable(d, time)
  /\ Set(p, Executing("execute", d, Never))
  /\ UNCHANGED <<Documents, Rest>>

\* paper-mark; a mark through the same date still rewrites the account.
StartMark(p) == \E d \in Date :
  /\ MayStart(p) /\ AccountFree
  /\ account.last # Never /\ account.last <= d /\ Closed(d)
  /\ Set(p, [Idle EXCEPT !.op = "mark", !.pc = "mark", !.date = d, !.account = account])
  /\ UNCHANGED <<Documents, Rest>>

\* run_autopilot_cycle, first half: a fill that is due, if a person confirms.
StartAutopilot(p) == \E confirm \in AutopilotConfirms :
  /\ MayStart(p) /\ p \in Leased /\ trial # NoTrial
  /\ LET due == {r.date : r \in {x \in trial.registered : files[x.date] # NoFile
                                                      /\ InWindow(x.date, time)}}
     IN  \/ \E d \in due : /\ confirm /\ AccountFree /\ Executable(d, time)
                           /\ Set(p, Executing("autopilot", d, time))
         \/ /\ ~(confirm /\ AccountFree /\ \E d \in due : Executable(d, time))
            /\ Set(p, [Idle EXCEPT !.op = "autopilot", !.pc = "staging"])
  /\ UNCHANGED <<Documents, Rest>>

\* run_autopilot_cycle, second half: the next proposal.
AutopilotStage(p) == \E d \in Date :
  /\ At(p, {"staging"})
  /\ trial # NoTrial /\ Ready(trial) /\ ~Unresolved
  /\ Closed(d) /\ files[d] = NoFile /\ Creatable(d, FALSE)
  /\ Set(p, Creating("autopilot", d, FALSE))
  /\ UNCHANGED <<Documents, Rest>>

-----------------------------------------------------------------------------
(* Writing a proposal.                                                     *)

\* The evidence is complete, and the guard of the write finds it prospective
\* and the account unchanged.  A date the market has not closed is not ready.
CreateGuard(p) == \E approved \in BOOLEAN :
  LET d == proc[p].date IN
  /\ At(p, {"create"}) /\ nextId < MaxProposals
  /\ ProposalFree(d) /\ Prospective(d) /\ account = proc[p].account
  /\ approved => Closed(d)
  /\ Set(p, [proc[p] EXCEPT !.pc = "write",
       !.proposal = [id |-> nextId, date |-> d, basis |-> account.version,
                     approved |-> approved]])
  /\ nextId' = nextId + 1
  /\ UNCHANGED <<Documents, time, policy>>

\* Fault: that the file is absent is looked at only before the checks.
StillAbsent_Earlier(p) == TRUE

StillAbsent(p) == proc[p].replace \/ files[proc[p].date] = NoFile

CreateWrite(p) ==
  /\ At(p, {"write"}) /\ StillAbsent(p)
  /\ files' = [files EXCEPT ![proc[p].date] = proc[p].proposal]
  /\ IF proc[p].op = "propose" /\ trial = NoTrial THEN Set(p, Idle) ELSE Go(p, "created")
  /\ UNCHANGED <<account, trial, archived, Rest>>

-----------------------------------------------------------------------------
(* Writing the trial.                                                      *)

\* register_forward_proposal
RegisterRead(p) ==
  /\ At(p, {"created"}) /\ proc[p].op # "restart" /\ TrialFree
  /\ trial # NoTrial /\ ~BaseIssues(trial)
  /\ files[proc[p].date] = proc[p].proposal /\ proc[p].date >= trial.start
  /\ Set(p, [proc[p] EXCEPT !.pc = "register", !.trial = trial])
  /\ UNCHANGED <<Documents, Rest>>

RegisterGuard(p) ==
  /\ At(p, {"register"}) /\ trial = proc[p].trial
  /\ Go(p, "enlist")
  /\ UNCHANGED <<Documents, Rest>>

RegisterWrite(p) ==
  /\ At(p, {"enlist"})
  /\ trial' = [proc[p].trial EXCEPT !.registered = @ \cup {proc[p].proposal}]
  /\ Set(p, Idle)
  /\ UNCHANGED <<account, files, archived, Rest>>

\* replace_drifted_forward_trial
RestartRead(p) ==
  LET r == proc[p].proposal IN
  /\ At(p, {"created"}) /\ proc[p].op = "restart" /\ TrialFree
  /\ trial # NoTrial /\ BaseIssues(trial)
  /\ files[r.date] = r /\ \A x \in trial.registered : r.date > x.date
  /\ r.approved /\ r.basis = account.version
  /\ Set(p, [proc[p] EXCEPT !.pc = "archive", !.trial = trial,
       !.next = [frozen |-> nextId, start |-> r.date, policy |-> policy,
                 registered |-> {r}]])
  /\ UNCHANGED <<Documents, Rest>>

RestartArchive(p) ==
  /\ At(p, {"archive"}) /\ trial # NoTrial
  /\ archived' = archived \cup {trial} /\ trial' = NoTrial
  /\ Go(p, "install")
  /\ UNCHANGED <<account, files, Rest>>

RestartInstall(p) ==
  /\ At(p, {"install"})
  /\ trial' = proc[p].next
  /\ Set(p, Idle)
  /\ UNCHANGED <<account, files, archived, Rest>>

-----------------------------------------------------------------------------
(* Writing the account.                                                    *)

\* The moment an execution is judged at: autopilot fixes it when it starts.
Moment(p) == IF proc[p].moment = Never THEN time ELSE proc[p].moment

AccountGuard(p) ==
  /\ At(p, {"execute", "mark"}) /\ account = proc[p].account
  /\ At(p, {"execute"}) => /\ InWindow(proc[p].date, Moment(p))
                           /\ files[proc[p].date] = proc[p].proposal
  /\ account.version < MaxVersion
  /\ Go(p, "commit")
  /\ UNCHANGED <<Documents, Rest>>

Filled(a, r, at) ==
  [version |-> a.version + 1, fills |-> Append(a.fills, [proposal |-> r, at |-> at]),
   last |-> r.date + 1]

AccountWrite(p) ==
  LET a == proc[p].account IN
  /\ At(p, {"commit"})
  /\ account' = IF proc[p].op = "mark"
                THEN [a EXCEPT !.version = @ + 1, !.last = proc[p].date]
                ELSE Filled(a, proc[p].proposal, Moment(p))
  /\ IF proc[p].op = "autopilot"
     THEN Set(p, [Idle EXCEPT !.op = "autopilot", !.pc = "staging"]) ELSE Set(p, Idle)
  /\ UNCHANGED <<files, trial, archived, Rest>>

-----------------------------------------------------------------------------
(* Failures and the world.                                                 *)

Unlinked(p) == [files EXCEPT ![proc[p].date] = NoFile]

\* A check refuses or a call fails; what the command cleans up depends on it.
Refuse(p) ==
  /\ ~At(p, {"idle"})
  /\ \/ /\ proc[p].op = "propose" /\ At(p, {"created", "register", "enlist"})
        /\ files' = IF files[proc[p].date] = proc[p].proposal THEN Unlinked(p) ELSE files
        /\ Set(p, Idle) /\ UNCHANGED <<trial, archived>>
     \/ /\ proc[p].op = "restart" /\ At(p, {"created", "archive"})
        /\ files' = Unlinked(p)
        /\ Set(p, Idle) /\ UNCHANGED <<trial, archived>>
     \/ /\ proc[p].op = "restart" /\ At(p, {"install"})
        /\ trial' = proc[p].trial /\ archived' = archived \ {proc[p].trial}
        /\ files' = Unlinked(p)
        /\ Set(p, Idle)
     \/ /\ proc[p].op = "autopilot" /\ At(p, {"execute", "commit"})
        /\ Set(p, [Idle EXCEPT !.op = "autopilot", !.pc = "staging"])
        /\ UNCHANGED <<files, trial, archived>>
     \/ /\ ~(proc[p].op \in {"propose", "restart"}
              /\ At(p, {"created", "register", "enlist", "archive", "install"}))
        /\ ~(proc[p].op = "autopilot" /\ At(p, {"execute", "commit"}))
        /\ Set(p, Idle) /\ UNCHANGED <<files, trial, archived>>
  /\ UNCHANGED <<account, Rest>>

Crash(p) == ~At(p, {"idle"}) /\ Set(p, Idle) /\ UNCHANGED <<Documents, Rest>>

\* An upgrade or an edit of the policy files, while no command runs.
EditPolicy ==
  /\ policy < MaxPolicy /\ \A q \in Leased : At(q, {"idle"})
  /\ policy' = policy + 1
  /\ UNCHANGED <<Documents, time, nextId, proc>>

\* No session opens between the last check of a write and its rename.
Tick ==
  /\ time < MaxTime /\ \A q \in Process : ~At(q, {"write", "commit"})
  /\ time' = time + 1
  /\ UNCHANGED <<Documents, policy, nextId, proc>>

Next ==
  \/ \E p \in Process :
       \/ StartPropose(p) \/ StartRestart(p) \/ StartStage(p) \/ Freeze(p)
       \/ StartExecute(p) \/ StartMark(p) \/ StartAutopilot(p) \/ AutopilotStage(p)
       \/ CreateGuard(p) \/ CreateWrite(p)
       \/ RegisterRead(p) \/ RegisterGuard(p) \/ RegisterWrite(p)
       \/ RestartRead(p) \/ RestartArchive(p) \/ RestartInstall(p)
       \/ AccountGuard(p) \/ AccountWrite(p)
       \/ Refuse(p) \/ Crash(p)
  \/ EditPolicy \/ Tick

Spec == Init /\ [][Next]_vars

-----------------------------------------------------------------------------
(* Properties.                                                             *)

\* The account is a ledger of fills, each decided on the account it changed.
Ledger == INSTANCE SimulatedLedger WITH
  version <- account.version,
  fills <- [i \in DOMAIN account.fills |->
              [date |-> account.fills[i].proposal.date,
               basis |-> account.fills[i].proposal.basis]]
LedgerPromise == Ledger!LedgerSpec

\* "Retrospective fills are blocked": a proposal is written before the session
\* it is filled in opens, a fill between the close of that session and the next.
NoBackfill ==
  [][/\ Len(account'.fills) > Len(account.fills) =>
          \A p \in Process : proc[p].pc = "commit" => time = 2 * (proc[p].date + 1) + 1
     /\ \A d \in Date : files'[d] \notin {files[d], NoFile} => time < 2 * (d + 1)]_vars

\* A registration is never lost: not to another writer, not to a replacement.
Registered == UNION {t.registered : t \in (archived \cup {trial}) \ {NoTrial}}
TrialHistory == [][Registered \subseteq Registered']_vars

\* What the active trial registered is the document that is still there.
RegisteredEvidence ==
  trial # NoTrial => \A r \in trial.registered : files[r.date] = r

\* "the CLI refuses simulated execution while that drift exists": a command
\* records a fill only of a registered proposal, under the frozen policy.
FillsGoverned ==
  [][\A p \in Leased :
       proc[p].pc = "commit" /\ Len(account'.fills) > Len(account.fills) =>
         /\ trial # NoTrial /\ trial.policy = policy
         /\ proc[p].proposal \in trial.registered]_vars

\* The proposals a trial registered are still the documents on disk, and no
\* registration is ever lost, to another writer or to a replacement of the
\* trial (register_forward_proposal, replace_drifted_forward_trial).
EvidenceKept == [](TypeOK /\ RegisteredEvidence) /\ TrialHistory

\* Every fill is made in its window, of a proposal written before it, and one
\* made by a command is of a registered proposal under the frozen policy
\* (execute_paper_proposal, require_registered_forward_proposal).
FillsSound == NoBackfill /\ FillsGoverned

=============================================================================
