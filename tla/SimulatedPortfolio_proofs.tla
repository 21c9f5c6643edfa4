------------------------ MODULE SimulatedPortfolio_proofs ------------------------
(***************************************************************************)
(* Proofs about the two simulated portfolios: the paper account and its    *)
(* forward trial (PaperTrading), and the book of a backtest (Backtest).    *)
(*                                                                         *)
(* PaperTrading.  Every document is written in two steps, a last check and *)
(* a rename: the invariants say what the locks, the lease and the last     *)
(* check leave true until the rename.  LedgerInv is about the account, the *)
(* trial and the locks and needs no premise; EvidenceInv adds the proposal *)
(* documents, and needs that no direct caller writes while a command may   *)
(* replace a proposal under a trial.                                       *)
(*                                                                         *)
(* Backtest.  A day of the run is a fold over the book: splits, dividends, *)
(* conversions, marks, sales, purchases and taxes in the order of the      *)
(* code.  Each operation gets a lemma that takes a sound book to a sound   *)
(* book (MarkedSound ... BuySound, SoldSound), each loop an induction over *)
(* the set or sequence it goes through, and BacktestIInv says where the    *)
(* run stands between two steps: what has been paired, what the curve      *)
(* shows, and that a book was refused only by an aborted run.              *)
(***************************************************************************)
EXTENDS PaperTrading, Backtest, FiniteSetTheorems, WellFoundedInduction, TLAPS

-----------------------------------------------------------------------------
(* The paper account and its trial.                                        *)

NoAccount == [version |-> Never]

ProcState ==
    [op : Op, pc : Pc, date : {Never} \cup Date, replace : BOOLEAN,
     moment : {Never} \cup 0..MaxTime, proposal : Proposal \cup {NoFile},
     account : Account \cup {NoAccount},
     trial : Trial \cup {NoTrial}, next : Trial \cup {NoTrial}]

\* Steps under the lock of the trial, and under that of the account.
Trials == {"register", "enlist", "archive", "install"}
Books == {"execute", "mark", "commit"}
\* Steps of a proposal that was generated and is not registered yet.
Pending == {"write", "created"} \cup Trials

Exclusive ==
    /\ \A p, q \in Leased : p # q => At(p, {"idle"}) \/ At(q, {"idle"})
    /\ \A p, q \in Process : p # q => ~At(p, Trials) \/ ~At(q, Trials)
    /\ \A p, q \in Process : p # q => ~At(p, Books) \/ ~At(q, Books)

\* What a command carries with it, whatever the others do.
Shape(p) ==
    /\ proc[p].op \in {"propose", "restart", "autopilot"} => p \in Leased
    /\ At(p, {"staging"}) => p \in Leased
    /\ At(p, {"archive", "install"}) => proc[p].op = "restart"
    /\ At(p, {"register", "enlist"}) => proc[p].op # "restart"
    /\ proc[p].replace => proc[p].op = "propose"
    /\ ~At(p, {"idle", "staging"}) => proc[p].date \in Date
    /\ At(p, Pending) => /\ proc[p].proposal \in Proposal
                         /\ proc[p].proposal.date = proc[p].date
                         /\ proc[p].proposal.id < nextId
    /\ At(p, Books) => proc[p].account \in Account
    /\ At(p, {"execute"}) => proc[p].op \in {"execute", "autopilot"}
    /\ At(p, {"mark"}) => proc[p].op = "mark"
    /\ At(p, {"commit"}) => proc[p].op \in {"execute", "autopilot", "mark"}
    /\ At(p, Books) /\ proc[p].op = "mark" => proc[p].account.last <= proc[p].date
    /\ At(p, Books) /\ proc[p].op # "mark" =>
          /\ proc[p].proposal \in Proposal
          /\ proc[p].proposal.date = proc[p].date
          /\ proc[p].proposal.basis = proc[p].account.version
          /\ proc[p].account.last \in {Never, proc[p].date}
    /\ proc[p].op = "autopilot" /\ At(p, Books) => TRUE \in AutopilotConfirms
    /\ proc[p].moment # Never => proc[p].op = "autopilot"

\* The trial a command has read is the one it writes over.
TrialHeld(p) ==
    /\ At(p, {"register", "enlist", "archive"}) =>
          trial = proc[p].trial /\ trial # NoTrial
    /\ At(p, {"install"}) => trial = NoTrial /\ proc[p].trial # NoTrial
    /\ At(p, {"archive", "install"}) => proc[p].next # NoTrial

\* The account a command has read is the one it writes over, in its window.
AccountHeld(p) ==
    At(p, {"commit"}) =>
        /\ account = proc[p].account /\ account.version < MaxVersion
        /\ proc[p].op # "mark" => InWindow(proc[p].date, Moment(p))

\* A command fills what the trial registered, under its policy.
GovernedStill(p) ==
    p \in Leased /\ At(p, {"execute", "commit"}) /\ proc[p].op = "execute" =>
        /\ trial # NoTrial /\ trial.policy = policy
        /\ proc[p].proposal \in trial.registered

Claims(p) ==
    /\ TrialHeld(p) /\ AccountHeld(p) /\ GovernedStill(p)
    /\ At(p, {"write"}) => Prospective(proc[p].date)

\* A document lies under its date, and its number was given out.
FilesDated ==
    \A d \in Date : files[d] # NoFile => files[d].date = d /\ files[d].id < nextId

FillsDated ==
    \A i \in DOMAIN account.fills : account.fills[i].proposal.date < account.last

LedgerInv ==
    /\ TypeOK /\ proc \in [Process -> ProcState]
    /\ Exclusive /\ FilesDated /\ FillsDated
    /\ \A p \in Process : Shape(p) /\ Claims(p)

-----------------------------------------------------------------------------

\* No command replaces a proposal under a trial, or no direct caller runs.
Premises == Library = {} \/ TRUE \notin Overwrites

DistinctIds ==
    \A p, q \in Process :
        p # q /\ At(p, Pending) /\ At(q, Pending) =>
            proc[p].proposal.id # proc[q].proposal.id

\* The document of a proposal that is not registered yet: not there before it
\* is written, then there as it was written, and in no trial.
Document(p) ==
    /\ At(p, {"write"}) => \A d \in Date : files[d] # proc[p].proposal
    /\ At(p, Trials) => files[proc[p].date] = proc[p].proposal
    /\ At(p, {"created"}) /\ p \in Leased => files[proc[p].date] = proc[p].proposal
    /\ At(p, {"created"} \cup Trials) /\ p \in Leased /\ trial # NoTrial =>
          proc[p].proposal \notin trial.registered

\* The trial that a restart took away can be put back, and its successor in.
Swapping(p) ==
    /\ At(p, {"archive", "install"}) => proc[p].next.registered = {proc[p].proposal}
    /\ At(p, {"install"}) =>
          /\ \A r \in proc[p].trial.registered : files[r.date] = r
          /\ proc[p].proposal \notin proc[p].trial.registered

\* A proposal that may be replaced is one of no trial.
Replacing(p) ==
    At(p, {"create", "write"}) /\ proc[p].replace /\ trial # NoTrial =>
        Library = {} /\ files[proc[p].date] = NoFile

EvidenceInv ==
    /\ RegisteredEvidence /\ DistinctIds
    /\ \A p \in Process : Document(p) /\ Swapping(p) /\ Replacing(p)

IInv == LedgerInv /\ EvidenceInv

-----------------------------------------------------------------------------
(* Types, and the steps of one process.                                    *)

LEMMA DateFacts ==
    /\ Date \subseteq Nat /\ Never \notin Date
    /\ \A d \in Date : 2 * d <= MaxTime
    /\ \A n \in Nat : 2 * n <= MaxTime => n \in Date
  BY PaperAssumption DEF Date, Never

LEMMA NoneOfThem ==
    NoFile \notin Proposal /\ NoTrial \notin Trial /\ NoAccount \notin Account
<1>1. NoFile \notin Proposal
  BY PaperAssumption DEF NoFile, Proposal, Never
<1>2. NoTrial \notin Trial
  BY PaperAssumption DEF NoTrial, Trial, Never
<1>3. NoAccount \notin Account
  BY PaperAssumption DEF NoAccount, Account, Never
<1> QED BY <1>1, <1>2, <1>3

Staging == [Idle EXCEPT !.op = "autopilot", !.pc = "staging"]

LEMMA IdleTyped == Idle \in ProcState /\ Staging \in ProcState
  BY DEF Idle, Staging, ProcState, Op, Pc, NoAccount

LEMMA ProcSet ==
    ASSUME proc \in [Process -> ProcState], NEW p \in Process, NEW s \in ProcState,
           proc' = [proc EXCEPT ![p] = s]
    PROVE  /\ proc' \in [Process -> ProcState] /\ proc'[p] = s
           /\ \A q \in Process \ {p} : proc'[q] = proc[q]
  OBVIOUS

LEMMA Typed ==
    ASSUME LedgerInv
    PROVE  /\ time \in 0..MaxTime /\ account \in Account
           /\ files \in [Date -> Proposal \cup {NoFile}]
           /\ trial \in Trial \cup {NoTrial} /\ archived \subseteq Trial
           /\ policy \in 0..MaxPolicy /\ nextId \in 0..MaxProposals
           /\ proc \in [Process -> ProcState]
           /\ MaxTime \in Nat /\ MaxProposals \in Nat /\ MaxVersion \in Nat
  BY PaperAssumption DEF LedgerInv, TypeOK

LEMMA InitInv == Init => LedgerInv
<1> SUFFICES ASSUME Init PROVE LedgerInv
  OBVIOUS
<1> USE DEF Init
<1>1. proc \in [Process -> ProcState] /\ \A p \in Process : proc[p] = Idle
  BY IdleTyped
<1>2. account \in Account /\ FillsDated
  BY PaperAssumption DEF Account, FillsDated
<1>3. TypeOK
  <2>1. time \in 0..MaxTime
    BY PaperAssumption
  <2>2. files \in [Date -> Proposal \cup {NoFile}]
    OBVIOUS
  <2>3. \A p \in Process : proc[p].op \in Op /\ proc[p].pc \in Pc
    BY <1>1 DEF Idle, Op, Pc
  <2>4. policy \in 0..MaxPolicy /\ nextId \in 0..MaxProposals
    BY PaperAssumption
  <2> QED BY <1>2, <2>1, <2>2, <2>3, <2>4 DEF TypeOK
<1>4. Exclusive /\ FilesDated
  <2>1. \A p \in Process : proc[p].pc = "idle"
    BY <1>1 DEF Idle
  <2> QED BY <2>1 DEF Exclusive, At, Trials, Books, FilesDated, Process
<1>5. \A p \in Process : Shape(p) /\ Claims(p)
  BY <1>1 DEF Shape, Claims, TrialHeld, AccountHeld, GovernedStill, At, Idle,
     Trials, Books, Pending
<1> QED BY <1>1, <1>2, <1>3, <1>4, <1>5 DEF LedgerInv

-----------------------------------------------------------------------------
(* What a step of one process leaves to the others.                        *)

\* The trial is the one it was, or the one it was with more registrations.
TrialKept ==
    \/ trial' = trial
    \/ /\ trial # NoTrial /\ trial' # NoTrial /\ trial'.policy = trial.policy
       /\ trial.registered \subseteq trial'.registered

LEMMA OthersStep ==
    ASSUME LedgerInv, NEW p \in Process, NEW q \in Process \ {p},
           proc' \in [Process -> ProcState], proc'[q] = proc[q],
           time' = time, policy' = policy,
           nextId' \in 0..MaxProposals, nextId <= nextId',
           account' = account \/ At(p, Books),
           At(q, Trials) => trial' = trial,
           q \in Leased => At(q, {"idle"}) \/ TrialKept
    PROVE  (Shape(q) /\ Claims(q))'
<1>1. Shape(q) /\ Claims(q)
  BY DEF LedgerInv
<1>2. proc[q] \in ProcState /\ nextId \in Int /\ nextId' \in Int
  BY Typed
<1>3. Shape(q)'
  <2>1. At(q, Pending)' => proc[q].proposal.id < nextId'
    <3>1. proc[q].proposal \in Proposal => proc[q].proposal.id \in Int
      BY DEF Proposal
    <3> QED BY <1>1, <1>2, <3>1 DEF Shape, At
  <2> QED BY <1>1, <2>1 DEF Shape, At
<1>4. TrialHeld(q)'
  BY <1>1 DEF Claims, TrialHeld, At, Trials
<1>5. AccountHeld(q)'
  <2>1. At(q, {"commit"}) => ~At(p, Books)
    BY DEF LedgerInv, Exclusive, At, Books
  <2>2. At(q, {"commit"}) => account' = account
    BY <2>1
  <2> QED BY <1>1, <2>2 DEF Claims, AccountHeld, At, Moment, InWindow, Open
<1>6. GovernedStill(q)'
  BY <1>1 DEF Claims, GovernedStill, At, TrialKept
<1>7. At(q, {"write"})' => Prospective(proc[q].date)'
  BY <1>1 DEF Claims, At, Prospective, Open
<1> QED BY <1>3, <1>4, <1>5, <1>6, <1>7 DEF Claims

\* A lock, or the lease, is taken only when nobody has it.
Enters(p) ==
    /\ At(p, Trials)' => At(p, Trials) \/ TrialFree
    /\ At(p, Books)' => At(p, Books) \/ AccountFree
    /\ p \in Leased /\ ~At(p, {"idle"})' =>
          ~At(p, {"idle"}) \/ \A q \in Leased : At(q, {"idle"})

LEMMA ExclusiveStep ==
    ASSUME Exclusive, NEW p \in Process, Enters(p),
           \A q \in Process \ {p} : proc'[q] = proc[q]
    PROVE  Exclusive'
<1>1. \A q \in Process \ {p} : \A pcs : At(q, pcs)' = At(q, pcs)
  BY DEF At
<1>2. ASSUME NEW q \in Process \ {p}, p \in Leased, q \in Leased
      PROVE  At(p, {"idle"})' \/ At(q, {"idle"})'
  BY <1>2 DEF Exclusive, Enters, At
<1>3. ASSUME NEW q \in Process \ {p}
      PROVE  ~At(p, Trials)' \/ ~At(q, Trials)'
  BY <1>3 DEF Exclusive, Enters, At, TrialFree, Trials
<1>4. ASSUME NEW q \in Process \ {p}
      PROVE  ~At(p, Books)' \/ ~At(q, Books)'
  BY <1>4 DEF Exclusive, Enters, At, AccountFree, Books
<1> QED BY <1>2, <1>3, <1>4 DEF Exclusive, At, Process

\* What is left to show of a step of p.
LEMMA ProcessStep ==
    ASSUME LedgerInv, NEW p \in Process,
           proc' \in [Process -> ProcState],
           \A q \in Process \ {p} : proc'[q] = proc[q],
           time' = time, policy' = policy,
           nextId' \in 0..MaxProposals, nextId <= nextId',
           account' \in Account, files' \in [Date -> Proposal \cup {NoFile}],
           trial' \in Trial \cup {NoTrial}, archived' \subseteq Trial,
           account' = account \/ At(p, Books),
           \A q \in Process \ {p} : At(q, Trials) => trial' = trial,
           \A q \in Leased \ {p} : At(q, {"idle"}) \/ TrialKept,
           Enters(p), FilesDated', FillsDated', (Shape(p) /\ Claims(p))'
    PROVE  LedgerInv'
<1>1. TypeOK'
  <2>1. \A q \in Process : proc'[q].op \in Op /\ proc'[q].pc \in Pc
    BY DEF ProcState
  <2> QED BY <2>1, Typed DEF TypeOK
<1>2. Exclusive'
  BY ExclusiveStep DEF LedgerInv
<1>3. \A q \in Process \ {p} : (Shape(q) /\ Claims(q))'
  BY OthersStep
<1> QED BY <1>1, <1>2, <1>3 DEF LedgerInv

\* A step that writes no document.
LEMMA QuietStep ==
    ASSUME LedgerInv, NEW p \in Process, NEW s \in ProcState,
           proc' = [proc EXCEPT ![p] = s],
           UNCHANGED <<Documents, time, policy>>,
           nextId' \in 0..MaxProposals, nextId <= nextId',
           Enters(p), (Shape(p) /\ Claims(p))'
    PROVE  LedgerInv'
<1>1. FillsDated'
  BY DEF LedgerInv, FillsDated, Documents
<1>2. FilesDated'
  <2>1. \A d \in Date : files[d] \in Proposal => files[d].id \in Int
    BY DEF Proposal
  <2> QED BY Typed, <2>1 DEF LedgerInv, FilesDated, Documents
<1>3. /\ proc' \in [Process -> ProcState]
      /\ \A q \in Process \ {p} : proc'[q] = proc[q]
  BY Typed, ProcSet
<1>4. /\ account' = account /\ files' = files /\ trial' = trial /\ archived' = archived
      /\ TrialKept
  BY DEF Documents, TrialKept
<1> QED BY <1>1, <1>2, <1>3, <1>4, Typed, ProcessStep

LEMMA QuietRest ==
    ASSUME LedgerInv, NEW p \in Process, NEW s \in ProcState,
           proc' = [proc EXCEPT ![p] = s],
           UNCHANGED <<Documents, Rest>>,
           Enters(p), (Shape(p) /\ Claims(p))'
    PROVE  LedgerInv'
<1>1. UNCHANGED <<Documents, time, policy>> /\ nextId' = nextId
  BY DEF Rest
<1>2. nextId' \in 0..MaxProposals /\ nextId <= nextId'
  BY <1>1, Typed
<1> QED BY <1>1, <1>2, QuietStep

\* A process that ends its command, or autopilot that goes on to stage.
Ends(p) ==
    \/ proc' = [proc EXCEPT ![p] = Idle]
    \/ p \in Leased /\ ~At(p, {"idle"}) /\ proc' = [proc EXCEPT ![p] = Staging]

LEMMA EndTyped ==
    ASSUME LedgerInv, NEW p \in Process, Ends(p)
    PROVE  /\ proc' \in [Process -> ProcState]
           /\ \A q \in Process \ {p} : proc'[q] = proc[q]
           /\ Enters(p) /\ (Shape(p) /\ Claims(p))'
           /\ ~At(p, Pending)' /\ ~At(p, {"create"})'
<1>0. Idle # Staging
  BY DEF Idle, Staging
<1> PICK s \in {Idle, Staging} :
           /\ proc' = [proc EXCEPT ![p] = s]
           /\ s = Staging => p \in Leased /\ ~At(p, {"idle"})
  BY <1>0 DEF Ends
<1>1. s \in ProcState
  BY IdleTyped
<1>2. /\ proc' \in [Process -> ProcState] /\ proc'[p] = s
      /\ \A q \in Process \ {p} : proc'[q] = proc[q]
  BY <1>1, Typed, ProcSet
<1>3. /\ s.pc \in {"idle", "staging"} /\ s.moment = Never /\ s.replace = FALSE
      /\ s.op # "none" => s.op = "autopilot" /\ p \in Leased
      /\ s.pc # "idle" => p \in Leased /\ ~At(p, {"idle"})
  <2>1. CASE s = Idle
    BY <2>1 DEF Idle
  <2>2. CASE s = Staging
    BY <2>2 DEF Idle, Staging
  <2> QED BY <2>1, <2>2
<1>4. Enters(p)
  BY <1>2, <1>3 DEF Enters, At, Trials, Books
<1>5. Shape(p)'
  BY <1>2, <1>3 DEF Shape, At, Books, Pending, Trials
<1>6. Claims(p)'
  BY <1>2, <1>3 DEF Claims, TrialHeld, AccountHeld, GovernedStill, At
<1>7. ~At(p, Pending)' /\ ~At(p, {"create"})'
  BY <1>2, <1>3 DEF At, Pending, Trials
<1> QED BY <1>2, <1>4, <1>5, <1>6, <1>7

LEMMA QuietEnd ==
    ASSUME LedgerInv, NEW p \in Process, Ends(p),
           UNCHANGED <<Documents, time, policy, nextId>>
    PROVE  LedgerInv'
<1>1. PICK s \in ProcState : proc' = [proc EXCEPT ![p] = s]
  BY IdleTyped DEF Ends
<1>2. Enters(p) /\ (Shape(p) /\ Claims(p))'
  BY EndTyped
<1>3. nextId' \in 0..MaxProposals /\ nextId <= nextId'
  BY Typed
<1> QED BY <1>1, <1>2, <1>3, QuietStep

-----------------------------------------------------------------------------
(* The commands, up to their first write.                                  *)

\* A command that may start, or autopilot in its second half.
MayGoOn(p) ==
    \/ MayStart(p)
    \/ p \in Leased /\ At(p, {"staging"})

LEMMA CreatingStep ==
    ASSUME LedgerInv, NEW p \in Process, NEW op \in Op, NEW d \in Date,
           NEW replace \in BOOLEAN,
           MayGoOn(p), op \in {"propose", "restart", "autopilot"} => p \in Leased,
           replace => op = "propose",
           Set(p, Creating(op, d, replace)),
           UNCHANGED <<Documents, Rest>>
    PROVE  LedgerInv'
<1> PICK s : s = Creating(op, d, replace)
  OBVIOUS
<1>1. /\ s.pc = "create" /\ s.op = op /\ s.date = d /\ s.replace = replace
      /\ s.moment = Never
  BY DEF Creating, Idle
<1>2. s \in ProcState
  BY Typed DEF Creating, Idle, ProcState, Pc, NoAccount
<1>3. proc'[p] = s /\ proc' = [proc EXCEPT ![p] = s]
  BY <1>2, Typed, ProcSet DEF Set
<1>4. Enters(p)
  BY <1>1, <1>3 DEF Enters, At, MayGoOn, MayStart, Trials, Books
<1>5. Shape(p)'
  BY <1>1, <1>3 DEF Shape, At, Books, Pending, Trials
<1>6. Claims(p)'
  BY <1>1, <1>3 DEF Claims, TrialHeld, AccountHeld, GovernedStill, At
<1> QED BY <1>2, <1>3, <1>4, <1>5, <1>6, QuietRest

LEMMA ExecutingStep ==
    ASSUME LedgerInv, NEW p \in Process, NEW d \in Date, NEW moment \in {Never, time},
           NEW op \in {"execute", "autopilot"},
           MayStart(p), AccountFree, Executable(d, time),
           op = "autopilot" => p \in Leased /\ TRUE \in AutopilotConfirms,
           op = "execute" => moment = Never,
           op = "execute" /\ p \in Leased => Governed(d),
           Set(p, Executing(op, d, moment)),
           UNCHANGED <<Documents, Rest>>
    PROVE  LedgerInv'
<1> PICK s : s = Executing(op, d, moment)
  OBVIOUS
<1>1. /\ s.pc = "execute" /\ s.op = op /\ s.date = d /\ s.replace = FALSE
      /\ s.moment = moment /\ s.proposal = files[d] /\ s.account = account
  BY DEF Executing, Idle
<1>2. s \in ProcState
  <2>1. op \in Op /\ "execute" \in Pc
    BY DEF Op, Pc
  <2>2. moment \in {Never} \cup 0..MaxTime /\ files[d] \in Proposal \cup {NoFile}
    BY Typed
  <2> QED BY <2>1, <2>2, Typed DEF Executing, Idle, ProcState, NoAccount
<1>3. proc'[p] = s /\ proc' = [proc EXCEPT ![p] = s]
  BY <1>2, Typed, ProcSet DEF Set
<1>4. Enters(p)
  BY <1>1, <1>3 DEF Enters, At, MayStart, Trials
<1>5. files[d] \in Proposal /\ files[d].date = d /\ files[d].basis = account.version
      /\ account.last \in {Never, d}
  BY Typed DEF LedgerInv, FilesDated, Executable
<1>6. Shape(p)'
  BY <1>1, <1>3, <1>5, Typed DEF Shape, At, Books, Pending, Trials
<1>7. GovernedStill(p)'
  BY <1>1, <1>3 DEF GovernedStill, At, Governed, Ready, BaseIssues, Documents, Rest
<1>8. Claims(p)'
  BY <1>1, <1>3, <1>7 DEF Claims, TrialHeld, AccountHeld, At
<1> QED BY <1>2, <1>3, <1>4, <1>6, <1>8, QuietRest

LEMMA StartProposeKeeps ==
    ASSUME LedgerInv, NEW p \in Process, StartPropose(p)
    PROVE  LedgerInv'
<1>1. "propose" \in Op
  BY DEF Op
<1> QED BY <1>1, CreatingStep DEF StartPropose, MayGoOn

LEMMA StartRestartKeeps ==
    ASSUME LedgerInv, NEW p \in Process, StartRestart(p)
    PROVE  LedgerInv'
<1>1. "restart" \in Op
  BY DEF Op
<1> QED BY <1>1, CreatingStep DEF StartRestart, MayGoOn

LEMMA StartStageKeeps ==
    ASSUME LedgerInv, NEW p \in Process, StartStage(p)
    PROVE  LedgerInv'
<1>1. "stage" \in Op
  BY DEF Op
<1> QED BY <1>1, CreatingStep DEF StartStage, MayGoOn

LEMMA AutopilotStageKeeps ==
    ASSUME LedgerInv, NEW p \in Process, AutopilotStage(p)
    PROVE  LedgerInv'
<1>1. "autopilot" \in Op
  BY DEF Op
<1>2. p \in Leased
  BY DEF LedgerInv, Shape, AutopilotStage, At
<1> QED BY <1>1, <1>2, CreatingStep DEF AutopilotStage, MayGoOn

LEMMA StartExecuteKeeps ==
    ASSUME LedgerInv, NEW p \in Process, StartExecute(p)
    PROVE  LedgerInv'
<1>1. Never \in {Never, time}
  OBVIOUS
<1> QED BY <1>1, ExecutingStep DEF StartExecute

LEMMA StartMarkKeeps ==
    ASSUME LedgerInv, NEW p \in Process, StartMark(p)
    PROVE  LedgerInv'
<1> PICK d \in Date :
           /\ account.last <= d
           /\ Set(p, [Idle EXCEPT !.op = "mark", !.pc = "mark", !.date = d,
                                  !.account = account])
  BY DEF StartMark
<1> PICK s : s = [Idle EXCEPT !.op = "mark", !.pc = "mark", !.date = d,
                              !.account = account]
  OBVIOUS
<1>1. /\ s.pc = "mark" /\ s.op = "mark" /\ s.date = d /\ s.replace = FALSE
      /\ s.moment = Never /\ s.account = account
  BY DEF Idle
<1>2. s \in ProcState
  <2>1. "mark" \in Op /\ "mark" \in Pc
    BY DEF Op, Pc
  <2> QED BY <2>1, Typed DEF Idle, ProcState, NoAccount
<1>3. proc'[p] = s /\ proc' = [proc EXCEPT ![p] = s]
  BY <1>2, Typed, ProcSet DEF Set
<1>4. Enters(p)
  BY <1>1, <1>3 DEF Enters, At, StartMark, MayStart, Trials
<1>5. Shape(p)'
  BY <1>1, <1>3, Typed DEF Shape, At, Books, Pending, Trials
<1>6. Claims(p)'
  BY <1>1, <1>3 DEF Claims, TrialHeld, AccountHeld, GovernedStill, At
<1> QED BY <1>2, <1>3, <1>4, <1>5, <1>6, QuietRest DEF StartMark

LEMMA StartAutopilotKeeps ==
    ASSUME LedgerInv, NEW p \in Process, StartAutopilot(p)
    PROVE  LedgerInv'
<1>1. ASSUME NEW d \in Date, TRUE \in AutopilotConfirms, AccountFree,
             Executable(d, time), Set(p, Executing("autopilot", d, time))
      PROVE  LedgerInv'
  BY <1>1, ExecutingStep DEF StartAutopilot
<1>2. ASSUME Set(p, Staging)
      PROVE  LedgerInv'
  <2>1. Staging.pc = "staging" /\ Staging.op = "autopilot" /\ Staging.replace = FALSE
        /\ Staging.moment = Never
    BY DEF Staging, Idle
  <2>2. proc'[p] = Staging /\ proc' = [proc EXCEPT ![p] = Staging]
    BY <1>2, IdleTyped, Typed, ProcSet DEF Set
  <2>3. Enters(p)
    BY <2>1, <2>2 DEF Enters, At, StartAutopilot, MayStart, Trials, Books
  <2>4. Shape(p)'
    BY <2>1, <2>2 DEF Shape, At, StartAutopilot, Books, Pending, Trials
  <2>5. Claims(p)'
    BY <2>1, <2>2 DEF Claims, TrialHeld, AccountHeld, GovernedStill, At
  <2> QED BY <2>2, <2>3, <2>4, <2>5, IdleTyped, QuietRest DEF StartAutopilot
<1>3. \A r \in trial.registered : trial # NoTrial => r.date \in Date
  BY Typed DEF Trial, Proposal
<1> QED BY <1>1, <1>2, <1>3 DEF StartAutopilot, Staging

-----------------------------------------------------------------------------
(* Writing a proposal, the trial and the account.                          *)

LEMMA CreateGuardKeeps ==
    ASSUME LedgerInv, NEW p \in Process, CreateGuard(p)
    PROVE  LedgerInv'
<1> PICK approved \in BOOLEAN :
           Set(p, [proc[p] EXCEPT !.pc = "write",
             !.proposal = [id |-> nextId, date |-> proc[p].date,
                           basis |-> account.version, approved |-> approved]])
  BY DEF CreateGuard
<1> PICK r : r = [id |-> nextId, date |-> proc[p].date,
                  basis |-> account.version, approved |-> approved]
  OBVIOUS
<1> PICK s : s = [proc[p] EXCEPT !.pc = "write", !.proposal = r]
  OBVIOUS
<1>1. proc[p] \in ProcState /\ Shape(p) /\ At(p, {"create"}) /\ nextId < MaxProposals
  BY Typed DEF LedgerInv, CreateGuard
<1>2. r \in Proposal /\ r.date = proc[p].date /\ r.id = nextId
  <2>1. proc[p].date \in Date
    BY <1>1 DEF Shape, At
  <2> QED BY <2>1, Typed DEF Proposal, Account
<1>3. s \in ProcState
  <2>1. "write" \in Pc
    BY DEF Pc
  <2> QED BY <1>1, <1>2, <2>1 DEF ProcState
<1>4. /\ s.pc = "write" /\ s.proposal = r /\ s.op = proc[p].op /\ s.date = proc[p].date
      /\ s.replace = proc[p].replace /\ s.moment = proc[p].moment
  BY <1>1 DEF ProcState
<1>5. proc'[p] = s /\ proc' = [proc EXCEPT ![p] = s]
  BY <1>3, Typed, ProcSet DEF Set
<1>6. nextId' = nextId + 1 /\ nextId' \in 0..MaxProposals /\ nextId <= nextId'
  BY <1>1, Typed DEF CreateGuard
<1>7. Enters(p)
  BY <1>1, <1>4, <1>5 DEF Enters, At, Trials, Books
<1>8. Shape(p)'
  BY <1>1, <1>2, <1>4, <1>5, <1>6, Typed DEF Shape, At, Books, Pending, Trials
<1>9. Claims(p)'
  BY <1>4, <1>5 DEF Claims, TrialHeld, AccountHeld, GovernedStill, At, CreateGuard,
     Prospective, Open
<1> QED BY <1>3, <1>5, <1>6, <1>7, <1>8, <1>9, QuietStep DEF CreateGuard

\* A step that goes on under the lock it has, or that takes a free one, and
\* changes at most what the process carries of the trials.
LEMMA GoOnStep ==
    ASSUME LedgerInv, NEW p \in Process, ~At(p, {"idle"}), NEW s \in ProcState,
           proc' = [proc EXCEPT ![p] = s],
           \/ At(p, {"created"}) /\ s.pc \in Trials /\ TrialFree
           \/ At(p, Trials) /\ s.pc \in Trials
           \/ At(p, Books) /\ s.pc \in Books
           \/ At(p, {"write"}) /\ s.pc = "created",
           UNCHANGED <<time, policy, nextId>>
    PROVE  Enters(p) /\ proc'[p] = s
<1>1. proc'[p] = s
  BY Typed, ProcSet
<1> QED BY <1>1 DEF Enters, At, Trials, Books

LEMMA RegisterReadKeeps ==
    ASSUME LedgerInv, NEW p \in Process, RegisterRead(p)
    PROVE  LedgerInv'
<1> PICK s : s = [proc[p] EXCEPT !.pc = "register", !.trial = trial]
  OBVIOUS
<1>1. proc[p] \in ProcState /\ Shape(p) /\ At(p, {"created"})
  BY Typed DEF LedgerInv, RegisterRead
<1>2. s \in ProcState
  <2>1. "register" \in Pc
    BY DEF Pc
  <2> QED BY <1>1, <2>1, Typed DEF ProcState
<1>3. /\ s.pc = "register" /\ s.trial = trial /\ s.op = proc[p].op
      /\ s.date = proc[p].date /\ s.replace = proc[p].replace
      /\ s.moment = proc[p].moment /\ s.proposal = proc[p].proposal
  BY <1>1 DEF ProcState
<1>4. Enters(p) /\ proc'[p] = s /\ proc' = [proc EXCEPT ![p] = s]
  BY <1>1, <1>2, <1>3, GoOnStep DEF RegisterRead, Set, At, Trials, Rest
<1>5. Shape(p)'
  BY <1>1, <1>3, <1>4 DEF Shape, At, Books, Pending, Trials, RegisterRead, Rest
<1>6. Claims(p)'
  BY <1>3, <1>4 DEF Claims, TrialHeld, AccountHeld, GovernedStill, At, RegisterRead,
     Documents
<1> QED BY <1>2, <1>4, <1>5, <1>6, QuietRest DEF RegisterRead

LEMMA RegisterGuardKeeps ==
    ASSUME LedgerInv, NEW p \in Process, RegisterGuard(p)
    PROVE  LedgerInv'
<1> PICK s : s = [proc[p] EXCEPT !.pc = "enlist"]
  OBVIOUS
<1>1. proc[p] \in ProcState /\ Shape(p) /\ Claims(p) /\ At(p, {"register"})
  BY Typed DEF LedgerInv, RegisterGuard
<1>2. s \in ProcState
  <2>1. "enlist" \in Pc
    BY DEF Pc
  <2> QED BY <1>1, <2>1 DEF ProcState
<1>3. /\ s.pc = "enlist" /\ s.trial = proc[p].trial /\ s.op = proc[p].op
      /\ s.date = proc[p].date /\ s.replace = proc[p].replace
      /\ s.moment = proc[p].moment /\ s.proposal = proc[p].proposal
  BY <1>1 DEF ProcState
<1>4. Enters(p) /\ proc'[p] = s /\ proc' = [proc EXCEPT ![p] = s]
  BY <1>1, <1>2, <1>3, GoOnStep DEF RegisterGuard, Go, Set, At, Trials, Rest
<1>5. Shape(p)'
  BY <1>1, <1>3, <1>4 DEF Shape, At, Books, Pending, Trials, RegisterGuard, Rest
<1>6. Claims(p)'
  BY <1>1, <1>3, <1>4 DEF Claims, TrialHeld, AccountHeld, GovernedStill, At,
     RegisterGuard, Documents
<1> QED BY <1>2, <1>4, <1>5, <1>6, QuietRest DEF RegisterGuard

LEMMA RestartReadKeeps ==
    ASSUME LedgerInv, NEW p \in Process, RestartRead(p)
    PROVE  LedgerInv'
<1> PICK n : n = [frozen |-> nextId, start |-> proc[p].proposal.date, policy |-> policy,
                  registered |-> {proc[p].proposal}]
  OBVIOUS
<1> PICK s : s = [proc[p] EXCEPT !.pc = "archive", !.trial = trial, !.next = n]
  OBVIOUS
<1>1. proc[p] \in ProcState /\ Shape(p) /\ At(p, {"created"})
  BY Typed DEF LedgerInv, RestartRead
<1>2. n \in Trial
  <2>1. proc[p].proposal \in Proposal
    BY <1>1 DEF Shape, At, Pending
  <2> QED BY <2>1, Typed DEF Trial, Proposal
<1>3. s \in ProcState
  <2>1. "archive" \in Pc
    BY DEF Pc
  <2> QED BY <1>1, <1>2, <2>1, Typed DEF ProcState
<1>4. /\ s.pc = "archive" /\ s.trial = trial /\ s.op = proc[p].op /\ s.next = n
      /\ s.date = proc[p].date /\ s.replace = proc[p].replace
      /\ s.moment = proc[p].moment /\ s.proposal = proc[p].proposal
  BY <1>1 DEF ProcState
<1>5. Enters(p) /\ proc'[p] = s /\ proc' = [proc EXCEPT ![p] = s]
  BY <1>1, <1>3, <1>4, GoOnStep DEF RestartRead, Set, At, Trials, Rest
<1>6. Shape(p)'
  BY <1>1, <1>4, <1>5 DEF Shape, At, Books, Pending, Trials, RestartRead, Rest
<1>7. Claims(p)'
  BY <1>2, <1>4, <1>5, NoneOfThem DEF Claims, TrialHeld, AccountHeld, GovernedStill, At,
     RestartRead, Documents
<1> QED BY <1>3, <1>5, <1>6, <1>7, QuietRest DEF RestartRead

LEMMA AccountGuardKeeps ==
    ASSUME LedgerInv, NEW p \in Process, AccountGuard(p)
    PROVE  LedgerInv'
<1> PICK s : s = [proc[p] EXCEPT !.pc = "commit"]
  OBVIOUS
<1>1. proc[p] \in ProcState /\ Shape(p) /\ Claims(p) /\ At(p, {"execute", "mark"})
  BY Typed DEF LedgerInv, AccountGuard
<1>2. s \in ProcState
  <2>1. "commit" \in Pc
    BY DEF Pc
  <2> QED BY <1>1, <2>1 DEF ProcState
<1>3. /\ s.pc = "commit" /\ s.trial = proc[p].trial /\ s.op = proc[p].op
      /\ s.date = proc[p].date /\ s.replace = proc[p].replace
      /\ s.account = proc[p].account
      /\ s.moment = proc[p].moment /\ s.proposal = proc[p].proposal
  BY <1>1 DEF ProcState
<1>4. Enters(p) /\ proc'[p] = s /\ proc' = [proc EXCEPT ![p] = s]
  BY <1>1, <1>2, <1>3, GoOnStep DEF AccountGuard, Go, Set, At, Books, Rest
<1>5. Shape(p)'
  <2>1. At(p, Books) /\ ~At(p, {"idle", "staging"})
    BY <1>1 DEF At, Books
  <2>2. proc[p].op \in {"execute", "autopilot", "mark"}
    BY <1>1 DEF Shape, At
  <2>3. /\ ~At(p, Pending)' /\ ~At(p, {"archive", "install"})' /\ ~At(p, {"staging"})'
        /\ ~At(p, {"register", "enlist"})' /\ ~At(p, {"execute"})' /\ ~At(p, {"mark"})'
    BY <1>3, <1>4 DEF At, Pending, Trials, Books
  <2>4. /\ proc'[p].op = proc[p].op /\ proc'[p].date = proc[p].date
        /\ proc'[p].replace = proc[p].replace /\ proc'[p].account = proc[p].account
        /\ proc'[p].moment = proc[p].moment /\ proc'[p].proposal = proc[p].proposal
    BY <1>3, <1>4
  <2> QED BY <1>1, <2>1, <2>2, <2>3, <2>4 DEF Shape
<1>6. AccountHeld(p)'
  BY <1>1, <1>3, <1>4 DEF AccountHeld, At, AccountGuard, Documents, Rest, Shape,
     Moment, InWindow, Open
<1>7. GovernedStill(p)'
  BY <1>1, <1>3, <1>4 DEF Claims, GovernedStill, At, AccountGuard, Documents, Rest, Shape
<1>8. Claims(p)'
  BY <1>3, <1>4, <1>6, <1>7 DEF Claims, TrialHeld, At
<1> QED BY <1>2, <1>4, <1>5, <1>8, QuietRest DEF AccountGuard

LEMMA CreateWriteKeeps ==
    ASSUME LedgerInv, NEW p \in Process, CreateWrite(p)
    PROVE  LedgerInv'
<1> PICK s : s = [proc[p] EXCEPT !.pc = "created"]
  OBVIOUS
<1>1. proc[p] \in ProcState /\ Shape(p) /\ At(p, {"write"})
  BY Typed DEF LedgerInv, CreateWrite
<1>2. s \in ProcState
  <2>1. "created" \in Pc
    BY DEF Pc
  <2> QED BY <1>1, <2>1 DEF ProcState
<1>3. /\ s.pc = "created" /\ s.trial = proc[p].trial /\ s.op = proc[p].op
      /\ s.date = proc[p].date /\ s.replace = proc[p].replace
      /\ s.moment = proc[p].moment /\ s.proposal = proc[p].proposal
  BY <1>1 DEF ProcState
<1>4. /\ proc' \in [Process -> ProcState]
      /\ \A q \in Process \ {p} : proc'[q] = proc[q]
      /\ Enters(p) /\ (Shape(p) /\ Claims(p))'
  <2>1. CASE Set(p, Idle)
    BY <2>1, EndTyped DEF Ends, Set
  <2>2. CASE Go(p, "created")
    <3>1. proc' = [proc EXCEPT ![p] = s]
      BY <2>2 DEF Go, Set
    <3>2. Enters(p) /\ proc'[p] = s
      BY <1>1, <1>2, <1>3, <3>1, GoOnStep DEF CreateWrite, At, Rest
    <3>3. Shape(p)'
      BY <1>1, <1>3, <3>2 DEF Shape, At, Books, Pending, Trials, CreateWrite, Rest
    <3>4. Claims(p)'
      BY <1>3, <3>2 DEF Claims, TrialHeld, AccountHeld, GovernedStill, At
    <3> QED BY <1>2, <3>1, <3>2, <3>3, <3>4, ProcSet, Typed
  <2> QED BY <2>1, <2>2 DEF CreateWrite
<1>5. proc[p].date \in Date /\ proc[p].proposal \in Proposal
      /\ proc[p].proposal.date = proc[p].date /\ proc[p].proposal.id < nextId
  BY <1>1 DEF Shape, At, Pending
<1>6. files' \in [Date -> Proposal \cup {NoFile}] /\ FilesDated' /\ FillsDated'
  BY <1>5, Typed DEF CreateWrite, FilesDated, FillsDated, LedgerInv, Rest
<1>7. /\ time' = time /\ policy' = policy /\ nextId' = nextId /\ account' = account
      /\ trial' = trial /\ archived' = archived
  BY DEF CreateWrite, Rest
<1> QED BY <1>4, <1>6, <1>7, Typed, ProcessStep DEF TrialKept

\* No other process writes the trial or the account meanwhile.
LEMMA Alone ==
    ASSUME LedgerInv, NEW p \in Process, NEW q \in Process \ {p}
    PROVE  /\ At(p, Trials) => ~At(q, Trials)
           /\ At(p, Books) => ~At(q, Books)
           /\ p \in Leased /\ q \in Leased /\ ~At(p, {"idle"}) => At(q, {"idle"})
  BY DEF LedgerInv, Exclusive

\* A step that writes the trial, under its lock or while no command runs.
LEMMA TrialStep ==
    ASSUME LedgerInv, NEW p \in Process,
           \/ At(p, Trials) /\ Ends(p)
           \/ At(p, {"archive"}) /\ Go(p, "install") /\ trial' = NoTrial
              /\ proc[p].trial # NoTrial
           \/ trial = NoTrial /\ MayStart(p) /\ p \in Leased /\ proc' = proc,
           p \in Leased \/ TrialKept,
           files' \in [Date -> Proposal \cup {NoFile}], FilesDated',
           trial' \in Trial \cup {NoTrial}, archived' \subseteq Trial,
           UNCHANGED <<account, time, policy, nextId>>
    PROVE  LedgerInv'
<1> PICK s : s = [proc[p] EXCEPT !.pc = "install"]
  OBVIOUS
<1>1. proc[p] \in ProcState /\ Shape(p) /\ Claims(p)
  BY Typed DEF LedgerInv
<1>2. /\ proc' \in [Process -> ProcState]
      /\ \A q \in Process \ {p} : proc'[q] = proc[q]
      /\ Enters(p) /\ (Shape(p) /\ Claims(p))'
  <2>1. CASE At(p, Trials) /\ Ends(p)
    BY <2>1, EndTyped
  <2>2. CASE At(p, {"archive"}) /\ Go(p, "install") /\ trial' = NoTrial
             /\ proc[p].trial # NoTrial
    <3>1. proc' = [proc EXCEPT ![p] = s] /\ "install" \in Pc
      BY <2>2 DEF Go, Set, Pc
    <3>2. s \in ProcState
      BY <1>1, <3>1 DEF ProcState
    <3>3. /\ s.pc = "install" /\ s.trial = proc[p].trial /\ s.op = proc[p].op
          /\ s.date = proc[p].date /\ s.replace = proc[p].replace /\ s.next = proc[p].next
          /\ s.moment = proc[p].moment /\ s.proposal = proc[p].proposal
      BY <1>1 DEF ProcState
    <3>4. Enters(p) /\ proc'[p] = s
      BY <2>2, <3>1, <3>2, <3>3, GoOnStep DEF At, Trials
    <3>5. Shape(p)'
      BY <1>1, <2>2, <3>3, <3>4 DEF Shape, At, Books, Pending, Trials
    <3>6. Claims(p)'
      BY <1>1, <2>2, <3>3, <3>4 DEF Claims, TrialHeld, AccountHeld, GovernedStill, At
    <3> QED BY <3>1, <3>2, <3>4, <3>5, <3>6, ProcSet, Typed
  <2>3. CASE trial = NoTrial /\ MayStart(p) /\ p \in Leased /\ proc' = proc
    <3>1. proc[p].pc = "idle"
      BY <2>3 DEF MayStart, At
    <3>2. Shape(p)'
      BY <1>1, <2>3, <3>1 DEF Shape, At, Books, Pending, Trials
    <3>3. Claims(p)'
      BY <2>3, <3>1 DEF Claims, TrialHeld, AccountHeld, GovernedStill, At
    <3>4. Enters(p)
      BY <2>3, <3>1 DEF Enters, At, Trials, Books
    <3> QED BY <2>3, <3>2, <3>3, <3>4, Typed
  <2> QED BY <2>1, <2>2, <2>3
<1>3. ASSUME NEW q \in Process \ {p}, At(q, Trials)
      PROVE  trial' = trial
  <2>1. ~At(p, Trials)
    BY <1>3, Alone
  <2>2. ~At(p, {"archive"})
    BY <2>1 DEF At, Trials
  <2>3. trial = NoTrial /\ MayStart(p) /\ p \in Leased
    BY <2>1, <2>2
  <2>4. TrialHeld(q) /\ Shape(q)
    BY DEF LedgerInv, Claims
  <2>5. q \in Leased
    BY <1>3, <2>3, <2>4 DEF TrialHeld, Shape, At, Trials
  <2> QED BY <1>3, <2>3, <2>5 DEF MayStart, At, Trials
<1>4. ASSUME NEW q \in Leased \ {p}
      PROVE  At(q, {"idle"}) \/ TrialKept
  <2>1. CASE p \in Leased /\ ~At(p, {"idle"})
    BY <2>1, Alone DEF Process
  <2>2. CASE p \in Leased /\ MayStart(p)
    BY <2>2 DEF MayStart
  <2> QED BY <2>1, <2>2 DEF At, Trials
<1>5. FillsDated'
  BY DEF LedgerInv, FillsDated
<1>6. nextId' \in 0..MaxProposals /\ nextId <= nextId' /\ account' \in Account
  BY Typed
<1> QED BY <1>2, <1>3, <1>4, <1>5, <1>6, ProcessStep

LEMMA FreezeKeeps ==
    ASSUME LedgerInv, NEW p \in Process, Freeze(p)
    PROVE  LedgerInv'
<1> PICK d \in Date :
           /\ files[d] # NoFile
           /\ trial' = [frozen |-> nextId, start |-> d, policy |-> policy,
                        registered |-> {files[d]}]
  BY DEF Freeze
<1>1. trial' \in Trial
  <2>1. files[d] \in Proposal
    BY Typed
  <2> QED BY <2>1, Typed DEF Trial
<1>2. FilesDated'
  BY DEF LedgerInv, FilesDated, Freeze, Rest
<1> QED BY <1>1, <1>2, Typed, TrialStep DEF Freeze, Rest

LEMMA RegisterWriteKeeps ==
    ASSUME LedgerInv, NEW p \in Process, RegisterWrite(p)
    PROVE  LedgerInv'
<1>1. At(p, Trials) /\ Ends(p)
  BY DEF RegisterWrite, At, Trials, Ends, Set
<1>2. proc[p].trial = trial /\ trial \in Trial /\ proc[p].proposal \in Proposal
  <2>1. Shape(p) /\ TrialHeld(p)
    BY DEF LedgerInv, Claims
  <2> QED BY <2>1, Typed DEF TrialHeld, Shape, RegisterWrite, At, Pending, Trials
<1>3. trial' \in Trial /\ TrialKept
  BY <1>2, NoneOfThem DEF RegisterWrite, Trial, TrialKept
<1>4. FilesDated'
  BY DEF LedgerInv, FilesDated, RegisterWrite, Rest
<1> QED BY <1>1, <1>3, <1>4, Typed, TrialStep DEF RegisterWrite, Rest

LEMMA RestartArchiveKeeps ==
    ASSUME LedgerInv, NEW p \in Process, RestartArchive(p)
    PROVE  LedgerInv'
<1>1. p \in Leased /\ proc[p].trial # NoTrial
  <2>1. Shape(p) /\ TrialHeld(p)
    BY DEF LedgerInv, Claims
  <2> QED BY <2>1 DEF TrialHeld, Shape, RestartArchive, At
<1>2. FilesDated' /\ archived' \subseteq Trial
  BY Typed DEF LedgerInv, FilesDated, RestartArchive, Rest
<1> QED BY <1>1, <1>2, Typed, TrialStep DEF RestartArchive, Rest

LEMMA RestartInstallKeeps ==
    ASSUME LedgerInv, NEW p \in Process, RestartInstall(p)
    PROVE  LedgerInv'
<1>1. At(p, Trials) /\ Ends(p)
  BY DEF RestartInstall, At, Trials, Ends, Set
<1>2. p \in Leased
  <2>1. Shape(p)
    BY DEF LedgerInv
  <2> QED BY <2>1 DEF Shape, RestartInstall, At
<1>3. trial' \in Trial \cup {NoTrial}
  <2>1. proc[p] \in ProcState
    BY Typed
  <2> QED BY <2>1 DEF ProcState, RestartInstall
<1>4. FilesDated'
  BY DEF LedgerInv, FilesDated, RestartInstall, Rest
<1> QED BY <1>1, <1>2, <1>3, <1>4, Typed, TrialStep DEF RestartInstall, Rest

\* What a rename of the account makes of it.
LEMMA Written ==
    ASSUME LedgerInv, NEW p \in Process, AccountWrite(p)
    PROVE  /\ account' \in Account /\ FillsDated'
           /\ account'.version = account.version + 1
           /\ \/ proc[p].op = "mark" /\ account'.fills = account.fills
              \/ /\ proc[p].op # "mark" /\ proc[p].proposal \in Proposal
                 /\ proc[p].proposal.basis = account.version
                 /\ \A i \in DOMAIN account.fills :
                       account.fills[i].proposal.date < proc[p].proposal.date
                 /\ account'.fills = Append(account.fills,
                       [proposal |-> proc[p].proposal, at |-> Moment(p)])
<1>1. Shape(p) /\ AccountHeld(p) /\ At(p, {"commit"}) /\ At(p, Books)
      /\ proc[p] \in ProcState /\ FillsDated
  BY Typed DEF LedgerInv, Claims, AccountWrite, At, Books
<1>2. account = proc[p].account /\ account.version < MaxVersion /\ account \in Account
  BY <1>1, Typed DEF AccountHeld
<1>3. account.version \in 0..MaxVersion /\ account.fills \in Seq(Fill)
      /\ account.last \in {Never} \cup Date /\ proc[p].date \in Date
      /\ account.version + 1 \in 0..MaxVersion /\ proc[p].date \in Nat
  <2>1. account.version \in 0..MaxVersion /\ account.fills \in Seq(Fill)
        /\ account.last \in {Never} \cup Date
    BY <1>2 DEF Account
  <2>2. proc[p].date \in Date /\ proc[p].date \in Nat
    BY <1>1, DateFacts DEF Shape, At
  <2> QED BY <1>2, <2>1, <2>2, Typed
<1>4. \A i \in DOMAIN account.fills : account.fills[i].proposal.date \in Nat
  <2>1. ASSUME NEW i \in DOMAIN account.fills PROVE account.fills[i] \in Fill
    BY <1>3, <2>1
  <2> QED BY <2>1, DateFacts DEF Fill, Proposal
<1>5. CASE proc[p].op = "mark"
  <2>1. account' = [account EXCEPT !.version = account.version + 1, !.last = proc[p].date]
    BY <1>2, <1>5 DEF AccountWrite
  <2>2. account' \in Account /\ account'.version = account.version + 1
        /\ account'.fills = account.fills /\ account'.last = proc[p].date
    BY <1>2, <1>3, <2>1 DEF Account
  <2>3. account.last <= proc[p].date
    BY <1>1, <1>2, <1>5 DEF Shape
  <2>4. FillsDated'
    <3>1. account.last \in Int
      <4>1. Never \in Int /\ \A d \in Date : d \in Int
        BY DateFacts DEF Never
      <4> QED BY <1>3, <4>1
    <3>2. ASSUME NEW i \in DOMAIN account.fills
          PROVE  account.fills[i].proposal.date < proc[p].date
      <4>1. account.fills[i].proposal.date < account.last
        BY <1>1 DEF FillsDated
      <4>2. account.fills[i].proposal.date \in Nat
        BY <1>4
      <4> QED BY <1>3, <2>3, <3>1, <4>1, <4>2
    <3> QED BY <2>2, <3>2 DEF FillsDated
  <2> QED BY <1>5, <2>2, <2>4
<1>6. CASE proc[p].op # "mark"
  <2> PICK f : f = [proposal |-> proc[p].proposal, at |-> Moment(p)]
    OBVIOUS
  <2>1. /\ proc[p].proposal \in Proposal /\ proc[p].proposal.date = proc[p].date
        /\ proc[p].proposal.basis = account.version
        /\ account.last \in {Never, proc[p].date}
        /\ InWindow(proc[p].date, Moment(p))
    BY <1>1, <1>2, <1>6 DEF Shape, AccountHeld
  <2>2. Moment(p) \in 0..MaxTime /\ 2 * (proc[p].date + 1) <= MaxTime
    <3>1. Moment(p) \in 0..MaxTime
      BY <1>1, Typed DEF Moment, ProcState
    <3>2. 2 * (proc[p].date + 1) + 1 <= Moment(p)
      BY <2>1 DEF InWindow, Open
    <3> QED BY <1>3, <3>1, <3>2, Typed
  <2>3. f \in Fill /\ f.proposal = proc[p].proposal
    BY <2>1, <2>2 DEF Fill
  <2>4. account' = [version |-> account.version + 1, fills |-> Append(account.fills, f),
                    last |-> proc[p].date + 1]
    BY <1>2, <1>6, <2>1 DEF AccountWrite, Filled
  <2>5. proc[p].date + 1 \in Date
    BY <1>3, <2>2, DateFacts
  <2>6. account' \in Account
    BY <1>3, <2>3, <2>4, <2>5 DEF Account
  <2>7. \A i \in DOMAIN account.fills : account.fills[i].proposal.date < proc[p].date
    BY <1>1, <1>3, <1>4, <2>1, DateFacts DEF FillsDated, Never
  <2>8. FillsDated'
    <3>1. account'.fills = Append(account.fills, f) /\ account'.last = proc[p].date + 1
      BY <2>4
    <3>2. ASSUME NEW i \in DOMAIN account'.fills
          PROVE  account'.fills[i].proposal.date < account'.last
      <4>1. CASE i \in DOMAIN account.fills
        <5>1. account'.fills[i] = account.fills[i]
          BY <1>3, <2>3, <3>1, <4>1
        <5>2. account.fills[i].proposal.date < proc[p].date
          BY <2>7, <4>1
        <5>3. account.fills[i].proposal.date \in Nat
          BY <1>4, <4>1
        <5> QED BY <1>3, <3>1, <5>1, <5>2, <5>3
      <4>2. CASE i \notin DOMAIN account.fills
        <5>1. account'.fills[i] = f
          BY <1>3, <2>3, <3>1, <3>2, <4>2
        <5> QED BY <1>3, <2>1, <2>3, <3>1, <5>1
      <4> QED BY <4>1, <4>2
    <3> QED BY <3>2 DEF FillsDated
  <2> QED BY <1>6, <2>1, <2>4, <2>6, <2>7, <2>8
<1> QED BY <1>5, <1>6

LEMMA AccountWriteKeeps ==
    ASSUME LedgerInv, NEW p \in Process, AccountWrite(p)
    PROVE  LedgerInv'
<1>1. At(p, Books) /\ ~At(p, {"idle"})
  BY DEF AccountWrite, At, Books
<1>2. Ends(p)
  <2>1. Shape(p)
    BY DEF LedgerInv
  <2> QED BY <1>1, <2>1 DEF AccountWrite, Ends, Set, Staging, Shape
<1>3. FilesDated'
  BY DEF LedgerInv, FilesDated, AccountWrite, Rest
<1>4. account' \in Account /\ FillsDated'
  BY Written
<1> QED BY <1>1, <1>2, <1>3, <1>4, EndTyped, Typed, ProcessStep
        DEF AccountWrite, Rest, TrialKept

-----------------------------------------------------------------------------
(* Failures and the world.                                                 *)

LEMMA UnlinkedTyped ==
    ASSUME LedgerInv, NEW p \in Process, files' \in {files, Unlinked(p)}, nextId' = nextId
    PROVE  files' \in [Date -> Proposal \cup {NoFile}] /\ FilesDated'
  BY Typed DEF Unlinked, LedgerInv, FilesDated

LEMMA UnlinkStep ==
    ASSUME LedgerInv, NEW p \in Process, Ends(p), files' \in {files, Unlinked(p)},
           UNCHANGED <<trial, archived, account, Rest>>
    PROVE  LedgerInv'
<1>1. UNCHANGED <<time, policy, nextId, account, trial, archived>>
  BY DEF Rest
<1>2. files' \in [Date -> Proposal \cup {NoFile}] /\ FilesDated'
  BY <1>1, UnlinkedTyped
<1>3. FillsDated'
  BY <1>1 DEF LedgerInv, FillsDated
<1>4. TrialKept /\ nextId' \in 0..MaxProposals /\ nextId <= nextId'
  BY <1>1, Typed DEF TrialKept
<1> QED BY <1>1, <1>2, <1>3, <1>4, EndTyped, Typed, ProcessStep

LEMMA RefuseKeeps ==
    ASSUME LedgerInv, NEW p \in Process, Refuse(p)
    PROVE  LedgerInv'
<1>1. Shape(p) /\ Claims(p) /\ proc[p] \in ProcState /\ ~At(p, {"idle"})
  BY Typed DEF LedgerInv, Refuse
<1>2. Ends(p)
  <2>1. proc[p].op = "autopilot" => p \in Leased
    BY <1>1 DEF Shape
  <2> QED BY <1>1, <2>1 DEF Refuse, Ends, Set, Staging
<1>3. CASE files' \in {files, Unlinked(p)} /\ UNCHANGED <<trial, archived>>
  BY <1>2, <1>3, UnlinkStep DEF Refuse
<1>4. CASE /\ proc[p].op = "restart" /\ At(p, {"install"})
           /\ trial' = proc[p].trial /\ archived' = archived \ {proc[p].trial}
           /\ files' = Unlinked(p)
  <2>1. p \in Leased /\ At(p, Trials)
    BY <1>1, <1>4 DEF Shape, At, Trials
  <2>2. trial' \in Trial \cup {NoTrial} /\ archived' \subseteq Trial
    BY <1>1, <1>4, Typed DEF ProcState
  <2>3. UNCHANGED <<time, policy, nextId, account>>
    BY DEF Refuse, Rest
  <2>4. files' \in [Date -> Proposal \cup {NoFile}] /\ FilesDated'
    BY <1>4, <2>3, UnlinkedTyped
  <2> QED BY <1>2, <2>1, <2>2, <2>3, <2>4, TrialStep
<1> QED BY <1>3, <1>4 DEF Refuse

LEMMA CrashKeeps ==
    ASSUME LedgerInv, NEW p \in Process, Crash(p)
    PROVE  LedgerInv'
  BY QuietEnd DEF Crash, Ends, Set, Rest

LEMMA EditPolicyKeeps ==
    ASSUME LedgerInv, EditPolicy
    PROVE  LedgerInv'
<1>1. /\ UNCHANGED <<time, account, files, trial, archived, nextId, proc>>
      /\ policy' = policy + 1 /\ policy < MaxPolicy
      /\ \A q \in Leased : At(q, {"idle"})
  BY DEF EditPolicy, Documents
<1>2. TypeOK'
  BY <1>1, PaperAssumption, Typed DEF LedgerInv, TypeOK
<1>3. ASSUME NEW p \in Process PROVE (Shape(p) /\ Claims(p))'
  <2>1. Shape(p) /\ Claims(p)
    BY DEF LedgerInv
  <2>2. Shape(p)'
    BY <1>1, <2>1 DEF Shape, At
  <2>3. GovernedStill(p)'
    BY <1>1 DEF GovernedStill, At
  <2> QED BY <1>1, <2>1, <2>2, <2>3
          DEF Claims, TrialHeld, AccountHeld, At, Moment, Prospective
<1>4. (Exclusive /\ FilesDated /\ FillsDated)'
  BY <1>1 DEF LedgerInv, Exclusive, FilesDated, FillsDated, At
<1> QED BY <1>1, <1>2, <1>3, <1>4, Typed DEF LedgerInv

LEMMA TickKeeps ==
    ASSUME LedgerInv, Tick
    PROVE  LedgerInv'
<1>1. /\ UNCHANGED <<policy, account, files, trial, archived, nextId, proc>>
      /\ time' = time + 1 /\ time < MaxTime
      /\ \A q \in Process : ~At(q, {"write", "commit"})
  BY DEF Tick, Documents
<1>2. TypeOK'
  BY <1>1, PaperAssumption, Typed DEF LedgerInv, TypeOK
<1>3. ASSUME NEW p \in Process PROVE (Shape(p) /\ Claims(p))'
  <2>1. Shape(p) /\ Claims(p) /\ ~At(p, {"write"}) /\ ~At(p, {"commit"})
    BY <1>1 DEF LedgerInv, At
  <2>2. Shape(p)'
    BY <1>1, <2>1 DEF Shape, At
  <2>3. GovernedStill(p)'
    BY <1>1, <2>1 DEF Claims, GovernedStill, At
  <2> QED BY <1>1, <2>1, <2>2, <2>3 DEF Claims, TrialHeld, AccountHeld, At
<1>4. (Exclusive /\ FilesDated /\ FillsDated)'
  BY <1>1 DEF LedgerInv, Exclusive, FilesDated, FillsDated, At
<1> QED BY <1>1, <1>2, <1>3, <1>4, Typed DEF LedgerInv

LEMMA StepInv == LedgerInv /\ [Next]_vars => LedgerInv'
<1> SUFFICES ASSUME LedgerInv, [Next]_vars PROVE LedgerInv'
  OBVIOUS
<1>1. CASE EditPolicy
  BY <1>1, EditPolicyKeeps
<1>2. CASE Tick
  BY <1>2, TickKeeps
<1>3. CASE UNCHANGED vars
  <2>1. UNCHANGED <<time, account, files, trial, archived, policy, nextId, proc>>
    BY <1>3 DEF vars
  <2>2. \A p \in Process : (Shape(p) /\ Claims(p))'
    <3> SUFFICES ASSUME NEW p \in Process PROVE (Shape(p) /\ Claims(p))'
      OBVIOUS
    <3>1. Shape(p) /\ Claims(p)
      BY DEF LedgerInv
    <3>2. Shape(p)'
      BY <2>1, <3>1 DEF Shape, At
    <3> QED BY <2>1, <3>1, <3>2 DEF Claims, TrialHeld, AccountHeld, GovernedStill, At,
            Moment, Prospective
  <2> QED BY <2>1, <2>2 DEF LedgerInv, TypeOK, Exclusive, FilesDated, FillsDated, At
<1>4. ASSUME NEW p \in Process,
             \/ StartPropose(p) \/ StartRestart(p) \/ StartStage(p) \/ Freeze(p)
             \/ StartExecute(p) \/ StartMark(p) \/ StartAutopilot(p) \/ AutopilotStage(p)
      PROVE  LedgerInv'
  BY <1>4, StartProposeKeeps, StartRestartKeeps, StartStageKeeps, FreezeKeeps,
     StartExecuteKeeps, StartMarkKeeps, StartAutopilotKeeps, AutopilotStageKeeps
<1>5. ASSUME NEW p \in Process,
             \/ CreateGuard(p) \/ CreateWrite(p)
             \/ RegisterRead(p) \/ RegisterGuard(p) \/ RegisterWrite(p)
             \/ RestartRead(p) \/ RestartArchive(p) \/ RestartInstall(p)
             \/ AccountGuard(p) \/ AccountWrite(p) \/ Refuse(p) \/ Crash(p)
      PROVE  LedgerInv'
  BY <1>5, CreateGuardKeeps, CreateWriteKeeps, RegisterReadKeeps, RegisterGuardKeeps,
     RegisterWriteKeeps, RestartReadKeeps, RestartArchiveKeeps, RestartInstallKeeps,
     AccountGuardKeeps, AccountWriteKeeps, RefuseKeeps, CrashKeeps
<1> QED BY <1>1, <1>2, <1>3, <1>4, <1>5 DEF Next

LEMMA LedgerInvHolds == Spec => []LedgerInv
  BY InitInv, StepInv, PTL DEF Spec

-----------------------------------------------------------------------------
(* The proposal documents.                                                 *)

LEMMA InitEvidence == Init => EvidenceInv
<1> SUFFICES ASSUME Init PROVE EvidenceInv
  OBVIOUS
<1>1. \A p \in Process : proc[p].pc = "idle"
  BY DEF Init, Idle
<1>2. \A p \in Process : Document(p) /\ Swapping(p) /\ Replacing(p)
  BY <1>1 DEF Document, Swapping, Replacing, At, Trials
<1>3. DistinctIds
  BY <1>1 DEF DistinctIds, At, Pending, Trials
<1> QED BY <1>2, <1>3 DEF EvidenceInv, RegisteredEvidence, Init

\* A document is left alone, unlinked by its author, or written where none is
\* or while no trial runs.
FileStep(p) ==
    \/ files' = files
    \/ /\ p \in Leased /\ At(p, {"created"} \cup Trials) /\ files' = Unlinked(p)
    \/ /\ At(p, {"write"}) /\ files' = [files EXCEPT ![proc[p].date] = proc[p].proposal]
       /\ files[proc[p].date] = NoFile \/ (trial = NoTrial /\ p \in Leased)

\* Another command's pending proposal is not registered by the step.
TrialFor(q) ==
    \/ trial' = trial \/ trial' = NoTrial
    \/ q \notin Leased \/ At(q, {"idle"})
    \/ trial # NoTrial /\ (At(q, Pending) => proc[q].proposal \notin trial'.registered)

\* Two proposals in the making are different documents.
LEMMA OtherProposal ==
    ASSUME IInv, NEW p \in Process, NEW q \in Process \ {p},
           At(p, Pending), At(q, Pending)
    PROVE  proc[p].proposal # proc[q].proposal
  BY DEF IInv, EvidenceInv, DistinctIds

LEMMA PendingFacts ==
    ASSUME IInv, NEW p \in Process, At(p, Pending)
    PROVE  /\ proc[p].date \in Date /\ proc[p].proposal \in Proposal
           /\ proc[p].proposal # NoFile /\ proc[p].proposal.date = proc[p].date
           /\ proc[p].proposal.id < nextId
           /\ At(p, {"created"} \cup Trials) /\ p \in Leased =>
                 files[proc[p].date] = proc[p].proposal
<1>1. Shape(p) /\ Document(p)
  BY DEF IInv, LedgerInv, EvidenceInv
<1>2. ~At(p, {"idle", "staging"})
  BY DEF At, Pending, Trials
<1> QED BY <1>1, <1>2, NoneOfThem DEF Shape, Document, At, Pending

LEMMA OthersDocument ==
    ASSUME IInv, NEW p \in Process, NEW q \in Process \ {p}, proc'[q] = proc[q],
           FileStep(p), TrialFor(q)
    PROVE  (Document(q) /\ Swapping(q) /\ Replacing(q))'
<1>1. /\ Document(q) /\ Swapping(q) /\ Replacing(q) /\ Shape(q) /\ TrialHeld(q)
      /\ files \in [Date -> Proposal \cup {NoFile}] /\ proc[q] \in ProcState
  BY Typed DEF IInv, EvidenceInv, LedgerInv, Claims
<1>2. \A pcs : At(q, pcs)' = At(q, pcs)
  BY DEF At
<1>3. CASE files' = files
  <2>1. Document(q)'
    BY <1>1, <1>2, <1>3 DEF Document, TrialFor, At, Pending, Trials
  <2>2. Swapping(q)'
    BY <1>1, <1>2, <1>3 DEF Swapping, At
  <2>3. Replacing(q)'
    BY <1>1, <1>2, <1>3 DEF Replacing, TrialFor, At, Shape
  <2> QED BY <2>1, <2>2, <2>3
<1>4. CASE p \in Leased /\ At(p, {"created"} \cup Trials) /\ files' = Unlinked(p)
  <2>1. At(p, Pending) /\ ~At(p, {"idle"})
    BY <1>4 DEF At, Pending, Trials
  <2>2. files[proc[p].date] = proc[p].proposal /\ proc[p].date \in Date
    BY <1>4, <2>1, PendingFacts
  <2>3. q \in Leased => proc[q].pc = "idle"
    BY <1>4, <2>1, Alone DEF IInv, At
  <2>4. \A d \in Date : files'[d] \in {files[d], NoFile}
    BY <1>1, <1>4 DEF Unlinked
  <2>5. ASSUME At(q, Pending), files[proc[q].date] = proc[q].proposal
        PROVE  files'[proc[q].date] = proc[q].proposal
    <3>1. proc[q].date # proc[p].date /\ proc[q].date \in Date
      BY <2>1, <2>2, <2>5, OtherProposal, PendingFacts
    <3> QED BY <1>1, <1>4, <2>5, <3>1 DEF Unlinked
  <2>6. Document(q)'
    <3>1. At(q, {"write"}) => \A d \in Date : files'[d] # proc[q].proposal
      <4>1. At(q, {"write"}) => proc[q].proposal # NoFile
        BY PendingFacts DEF At, Pending
      <4> QED BY <1>1, <2>4, <4>1 DEF Document
    <3>2. At(q, Trials) => files'[proc[q].date] = proc[q].proposal
      BY <1>1, <2>5 DEF Document, At, Pending
    <3> QED BY <1>2, <2>3, <3>1, <3>2 DEF Document, At, Trials
  <2>7. Swapping(q)'
    <3>1. ~At(q, {"archive", "install"})
      BY <1>1, <2>3 DEF Shape, At
    <3> QED BY <1>2, <3>1 DEF Swapping, At
  <2>8. Replacing(q)'
    <3>1. ~(At(q, {"create", "write"}) /\ proc[q].replace)
      BY <1>1, <2>3 DEF Shape, At
    <3> QED BY <3>1 DEF Replacing, At
  <2> QED BY <2>6, <2>7, <2>8
<1>5. CASE /\ At(p, {"write"})
           /\ files' = [files EXCEPT ![proc[p].date] = proc[p].proposal]
           /\ files[proc[p].date] = NoFile \/ (trial = NoTrial /\ p \in Leased)
  <2>1. At(p, Pending) /\ ~At(p, {"idle"}) /\ proc[p].date \in Date
        /\ proc[p].proposal # NoFile
    BY <1>5, PendingFacts DEF At, Pending, Trials, IInv
  <2>2. p \in Leased /\ q \in Leased => proc[q].pc = "idle"
    BY <2>1, Alone DEF IInv, At
  <2>3. \A d \in Date : files'[d] = files[d] \/ (d = proc[p].date
                                                   /\ files'[d] = proc[p].proposal)
    BY <1>1, <1>5
  <2>4. ASSUME At(q, {"created"} \cup Trials), At(q, {"created"}) => q \in Leased
        PROVE  proc[q].date # proc[p].date
    <3>1. At(q, Pending)
      BY <2>4 DEF At, Pending, Trials
    <3>2. files[proc[q].date] = proc[q].proposal /\ proc[q].proposal # NoFile
      BY <1>1, <2>4, <3>1, PendingFacts DEF Document, At, Trials
    <3>3. ~(trial = NoTrial /\ p \in Leased)
      BY <1>1, <2>2, <2>4 DEF TrialHeld, Shape, At, Trials
    <3> QED BY <1>5, <3>2, <3>3
  <2>5. Document(q)'
    <3>1. At(q, {"write"}) => \A d \in Date : files'[d] # proc[q].proposal
      <4>1. At(q, {"write"}) => proc[q].proposal # proc[p].proposal
        BY <2>1, OtherProposal DEF At, Pending
      <4> QED BY <1>1, <2>3, <4>1 DEF Document
    <3>2. At(q, Trials) => files'[proc[q].date] = proc[q].proposal
      <4>1. At(q, Trials) => proc[q].date \in Date
        BY PendingFacts DEF At, Pending
      <4> QED BY <1>1, <2>3, <2>4, <4>1 DEF Document, At, Trials
    <3>3. At(q, {"created"}) /\ q \in Leased => files'[proc[q].date] = proc[q].proposal
      <4>1. At(q, {"created"}) => proc[q].date \in Date
        BY PendingFacts DEF At, Pending
      <4> QED BY <1>1, <2>3, <2>4, <4>1 DEF Document, At, Trials
    <3> QED BY <1>1, <1>2, <3>1, <3>2, <3>3 DEF Document, TrialFor, At, Pending, Trials
  <2>6. Swapping(q)'
    <3> SUFFICES ASSUME At(q, {"install"})
                 PROVE  \A r \in proc[q].trial.registered : files'[r.date] = r
      BY <1>1, <1>2 DEF Swapping, At
    <3> SUFFICES ASSUME NEW r \in proc[q].trial.registered
                 PROVE  files'[r.date] = r
      OBVIOUS
    <3>1. files[r.date] = r /\ q \in Leased
      BY <1>1 DEF Swapping, Shape, At
    <3>2. proc[q].trial \in Trial
      BY <1>1 DEF TrialHeld, ProcState
    <3>3. r \in Proposal /\ r # NoFile /\ r.date \in Date
      BY <3>2, NoneOfThem DEF Trial, Proposal
    <3>4. p \notin Leased
      BY <2>2, <3>1 DEF At
    <3> QED BY <1>5, <2>3, <3>1, <3>3, <3>4
  <2>7. Replacing(q)'
    <3> SUFFICES ASSUME At(q, {"create", "write"}), proc[q].replace, trial' # NoTrial
                 PROVE  Library = {} /\ files'[proc[q].date] = NoFile
      BY DEF Replacing, At
    <3>1. q \in Leased /\ ~At(q, {"idle"})
      BY <1>1 DEF Shape, At
    <3>2. p \notin Leased
      BY <2>2, <3>1 DEF At
    <3>3. trial # NoTrial
      BY <3>1 DEF TrialFor
    <3> QED BY <1>1, <3>2, <3>3 DEF Replacing, Process
  <2> QED BY <2>5, <2>6, <2>7
<1> QED BY <1>3, <1>4, <1>5 DEF FileStep

\* What is left to show of a step of p.
LEMMA EvidenceStep ==
    ASSUME IInv, NEW p \in Process,
           \A q \in Process \ {p} : proc'[q] = proc[q],
           FileStep(p), \A q \in Process \ {p} : TrialFor(q),
           (Document(p) /\ Swapping(p) /\ Replacing(p))',
           At(p, Pending)' => \/ At(p, Pending) /\ proc'[p].proposal = proc[p].proposal
                              \/ proc'[p].proposal.id = nextId,
           RegisteredEvidence'
    PROVE  EvidenceInv'
<1>1. \A q \in Process : (Document(q) /\ Swapping(q) /\ Replacing(q))'
  BY OthersDocument
<1>2. ASSUME NEW q \in Process \ {p}, At(p, Pending)', At(q, Pending)'
      PROVE  proc'[p].proposal.id # proc'[q].proposal.id
  <2>1. At(q, Pending) /\ proc'[q] = proc[q]
    BY <1>2 DEF At
  <2>2. proc[q].proposal.id < nextId /\ proc[q].proposal.id \in Int /\ nextId \in Int
    BY <2>1, PendingFacts, Typed DEF Proposal, IInv
  <2>3. At(p, Pending) => proc[p].proposal.id # proc[q].proposal.id
    BY <2>1 DEF IInv, EvidenceInv, DistinctIds
  <2> QED BY <1>2, <2>1, <2>2, <2>3
<1>3. DistinctIds'
  <2>1. ASSUME NEW q \in Process, NEW r \in Process, q # r, q # p, r # p,
               At(q, Pending)', At(r, Pending)'
        PROVE  proc'[q].proposal.id # proc'[r].proposal.id
    BY <2>1 DEF IInv, EvidenceInv, DistinctIds, At
  <2> QED BY <1>2, <2>1 DEF DistinctIds
<1> QED BY <1>1, <1>3 DEF EvidenceInv

\* A step that writes neither proposals nor the trial.
LEMMA EvidenceQuiet ==
    ASSUME IInv, NEW p \in Process,
           \A q \in Process \ {p} : proc'[q] = proc[q],
           files' = files, trial' = trial,
           (Document(p) /\ Swapping(p) /\ Replacing(p))',
           At(p, Pending)' => \/ At(p, Pending) /\ proc'[p].proposal = proc[p].proposal
                              \/ proc'[p].proposal.id = nextId
    PROVE  EvidenceInv'
  BY EvidenceStep DEF FileStep, TrialFor, IInv, EvidenceInv, RegisteredEvidence

\* A command that ends claims nothing about the documents.
LEMMA EndDocument ==
    ASSUME IInv, NEW p \in Process, Ends(p)
    PROVE  /\ (Document(p) /\ Swapping(p) /\ Replacing(p))' /\ ~At(p, Pending)'
           /\ \A q \in Process \ {p} : proc'[q] = proc[q]
<1>1. ~At(p, Pending)' /\ ~At(p, {"create"})'
      /\ \A q \in Process \ {p} : proc'[q] = proc[q]
  BY EndTyped DEF IInv
<1> QED BY <1>1 DEF Document, Swapping, Replacing, At, Pending, Trials

LEMMA EvidenceEnd ==
    ASSUME IInv, NEW p \in Process, Ends(p), files' = files, trial' = trial
    PROVE  EvidenceInv'
  BY EndDocument, EvidenceQuiet

\* A document that some trial registered lies where it says.
LEMMA RegisteredTyped ==
    ASSUME IInv, NEW t \in Trial, NEW r \in t.registered
    PROVE  r \in Proposal /\ r # NoFile /\ r.date \in Date
  BY NoneOfThem DEF Trial, Proposal

\* The step of a process that starts something else than a write.
LEMMA EvidenceStart ==
    ASSUME IInv, NEW p \in Process, NEW s \in ProcState,
           proc' = [proc EXCEPT ![p] = s], files' = files, trial' = trial,
           s.pc \in {"idle", "staging", "create"} \cup Books,
           s.pc = "create" /\ s.replace /\ trial # NoTrial =>
              Library = {} /\ files[s.date] = NoFile
    PROVE  EvidenceInv'
<1>1. proc'[p] = s /\ \A q \in Process \ {p} : proc'[q] = proc[q]
  BY ProcSet, Typed DEF IInv
<1>2. ~At(p, Pending)' /\ ~At(p, {"write"})'
  BY <1>1 DEF At, Pending, Trials, Books
<1>3. (Document(p) /\ Swapping(p))'
  BY <1>2 DEF Document, Swapping, At, Pending, Trials
<1>4. Replacing(p)'
  BY <1>1, <1>2 DEF Replacing, At
<1> QED BY <1>1, <1>2, <1>3, <1>4, EvidenceQuiet

LEMMA CreatingEvidence ==
    ASSUME IInv, NEW p \in Process, NEW op \in Op, NEW d \in Date, NEW replace \in BOOLEAN,
           Set(p, Creating(op, d, replace)), files' = files, trial' = trial,
           replace /\ trial # NoTrial => Library = {} /\ files[d] = NoFile
    PROVE  EvidenceInv'
<1> PICK s : s = Creating(op, d, replace)
  OBVIOUS
<1>1. /\ s.pc = "create" /\ s.op = op /\ s.date = d /\ s.replace = replace
  BY DEF Creating, Idle
<1>2. s \in ProcState
  BY Typed DEF Creating, Idle, ProcState, Pc, NoAccount, IInv
<1> QED BY <1>1, <1>2, EvidenceStart DEF Set

LEMMA StartsEvidence ==
    ASSUME Premises, IInv, NEW p \in Process,
           \/ StartPropose(p) \/ StartRestart(p) \/ StartStage(p) \/ AutopilotStage(p)
    PROVE  EvidenceInv'
<1>1. {"propose", "restart", "stage", "autopilot"} \subseteq Op
  BY DEF Op
<1>2. CASE StartPropose(p)
  <2>1. PICK d \in Date, replace \in BOOLEAN :
           /\ trial # NoTrial => replace \in Overwrites /\ ~(replace /\ files[d] # NoFile)
           /\ Set(p, Creating("propose", d, replace))
    BY <1>2 DEF StartPropose
  <2>2. replace /\ trial # NoTrial => Library = {} /\ files[d] = NoFile
    BY <2>1 DEF Premises
  <2> QED BY <1>1, <1>2, <2>1, <2>2, CreatingEvidence DEF StartPropose, Documents
<1>3. CASE StartRestart(p)
  BY <1>1, <1>3, CreatingEvidence DEF StartRestart, Documents
<1>4. CASE StartStage(p)
  BY <1>1, <1>4, CreatingEvidence DEF StartStage, Documents
<1>5. CASE AutopilotStage(p)
  BY <1>1, <1>5, CreatingEvidence DEF AutopilotStage, Documents
<1> QED BY <1>2, <1>3, <1>4, <1>5

LEMMA BooksEvidence ==
    ASSUME IInv, NEW p \in Process,
           \/ StartExecute(p) \/ StartMark(p) \/ StartAutopilot(p) \/ AccountGuard(p)
    PROVE  EvidenceInv'
<1>1. files' = files /\ trial' = trial
  BY DEF StartExecute, StartMark, StartAutopilot, AccountGuard, Documents
<1>2. PICK s : /\ proc' = [proc EXCEPT ![p] = s]
               /\ s.pc \in {"staging"} \cup Books
  <2>1. ASSUME NEW op, NEW d, NEW moment, Set(p, Executing(op, d, moment))
        PROVE  /\ proc' = [proc EXCEPT ![p] = Executing(op, d, moment)]
               /\ Executing(op, d, moment).pc \in {"staging"} \cup Books
    BY <2>1 DEF Set, Executing, Idle, Books
  <2>2. CASE StartExecute(p)
    BY <2>1, <2>2 DEF StartExecute
  <2>3. CASE StartMark(p)
    <3> PICK d \in Date : Set(p, [Idle EXCEPT !.op = "mark", !.pc = "mark", !.date = d,
                                              !.account = account])
      BY <2>3 DEF StartMark
    <3> PICK m : m = [Idle EXCEPT !.op = "mark", !.pc = "mark", !.date = d,
                                  !.account = account]
      OBVIOUS
    <3>1. m.pc = "mark"
      BY DEF Idle
    <3> QED BY <3>1 DEF Set, Books
  <2>4. CASE StartAutopilot(p)
    <3>1. Staging.pc \in {"staging"} \cup Books
      BY DEF Staging, Idle
    <3>2. CASE Set(p, Staging)
      BY <3>1, <3>2 DEF Set
    <3> QED BY <2>1, <2>4, <3>2 DEF StartAutopilot, Staging
  <2>5. CASE AccountGuard(p)
    <3> PICK c : c = [proc[p] EXCEPT !.pc = "commit"]
      OBVIOUS
    <3>1. c.pc = "commit"
      BY Typed DEF IInv, ProcState
    <3> QED BY <2>5, <3>1 DEF AccountGuard, Go, Set, Books
  <2> QED BY <2>2, <2>3, <2>4, <2>5
<1>3. proc'[p] = s /\ \A q \in Process \ {p} : proc'[q] = proc[q]
  BY <1>2, Typed DEF IInv
<1>4. ~At(p, Pending)' /\ ~At(p, {"write"})' /\ ~At(p, {"create"})'
  BY <1>2, <1>3 DEF At, Pending, Trials, Books
<1>5. (Document(p) /\ Swapping(p) /\ Replacing(p))'
  BY <1>4 DEF Document, Swapping, Replacing, At, Pending, Trials
<1> QED BY <1>1, <1>3, <1>4, <1>5, EvidenceQuiet

LEMMA CreateGuardEvidence ==
    ASSUME IInv, NEW p \in Process, CreateGuard(p)
    PROVE  EvidenceInv'
<1> PICK approved \in BOOLEAN :
           Set(p, [proc[p] EXCEPT !.pc = "write",
             !.proposal = [id |-> nextId, date |-> proc[p].date,
                           basis |-> account.version, approved |-> approved]])
  BY DEF CreateGuard
<1> PICK r : r = [id |-> nextId, date |-> proc[p].date,
                  basis |-> account.version, approved |-> approved]
  OBVIOUS
<1> PICK s : s = [proc[p] EXCEPT !.pc = "write", !.proposal = r]
  OBVIOUS
<1>1. proc[p] \in ProcState /\ At(p, {"create"}) /\ Replacing(p)
      /\ files' = files /\ trial' = trial
  BY Typed DEF IInv, EvidenceInv, CreateGuard, Documents
<1>2. /\ s.pc = "write" /\ s.proposal = r /\ s.date = proc[p].date
      /\ s.replace = proc[p].replace /\ r.id = nextId
  BY <1>1 DEF ProcState
<1>3. proc'[p] = s /\ \A q \in Process \ {p} : proc'[q] = proc[q]
  BY Typed DEF Set, IInv
<1>4. \A d \in Date : files[d] # r
  <2> SUFFICES ASSUME NEW d \in Date, files[d] = r PROVE FALSE
    OBVIOUS
  <2>1. files[d] # NoFile
    BY <1>2, Typed DEF NoFile, Never, IInv
  <2> QED BY <1>2, <2>1, Typed DEF IInv, LedgerInv, FilesDated
<1>5. Document(p)'
  BY <1>1, <1>2, <1>3, <1>4 DEF Document, At, Trials
<1>6. Swapping(p)' /\ Replacing(p)'
  BY <1>1, <1>2, <1>3 DEF Swapping, Replacing, At
<1> QED BY <1>1, <1>2, <1>3, <1>5, <1>6, EvidenceQuiet

LEMMA CreateWriteEvidence ==
    ASSUME IInv, NEW p \in Process, CreateWrite(p)
    PROVE  EvidenceInv'
<1>1. /\ proc[p] \in ProcState /\ At(p, {"write"}) /\ At(p, Pending)
      /\ Document(p) /\ Shape(p) /\ Replacing(p) /\ trial' = trial
      /\ files' = [files EXCEPT ![proc[p].date] = proc[p].proposal]
      /\ RegisteredEvidence /\ files \in [Date -> Proposal \cup {NoFile}]
  BY Typed DEF IInv, EvidenceInv, LedgerInv, CreateWrite, At, Pending
<1>2. proc[p].date \in Date /\ proc[p].proposal \in Proposal
  BY <1>1, PendingFacts
<1>3. files[proc[p].date] = NoFile \/ (trial = NoTrial /\ p \in Leased)
  BY <1>1 DEF CreateWrite, StillAbsent, Replacing, Shape, At
<1>4. FileStep(p) /\ \A q \in Process : TrialFor(q)
  BY <1>1, <1>3 DEF FileStep, TrialFor
<1>5. RegisteredEvidence'
  <2> SUFFICES ASSUME trial # NoTrial, NEW r \in trial.registered
               PROVE  files'[r.date] = r
    BY <1>1 DEF RegisteredEvidence
  <2>1. files[r.date] = r /\ r # NoFile /\ r.date \in Date
    BY <1>1, Typed, RegisteredTyped DEF RegisteredEvidence, IInv
  <2> QED BY <1>1, <1>3, <2>1
<1>6. CASE Set(p, Idle)
  BY <1>4, <1>5, <1>6, EndDocument, EvidenceStep DEF Set, Ends
<1>7. CASE Go(p, "created")
  <2> PICK s : s = [proc[p] EXCEPT !.pc = "created"]
    OBVIOUS
  <2>1. /\ s.pc = "created" /\ s.proposal = proc[p].proposal /\ s.date = proc[p].date
    BY <1>1 DEF ProcState
  <2>2. proc'[p] = s /\ \A q \in Process \ {p} : proc'[q] = proc[q]
    BY <1>7, Typed DEF Go, Set, IInv
  <2>3. trial # NoTrial => proc[p].proposal \notin trial.registered
    <3> SUFFICES ASSUME trial # NoTrial, proc[p].proposal \in trial.registered
                 PROVE  FALSE
      OBVIOUS
    <3>1. files[proc[p].proposal.date] = proc[p].proposal
      BY <1>1 DEF RegisteredEvidence
    <3> QED BY <1>1, <1>2, <3>1, PendingFacts DEF Document
  <2>4. Document(p)'
    BY <1>1, <1>2, <2>1, <2>2, <2>3 DEF Document, At, Trials
  <2>5. Swapping(p)' /\ Replacing(p)'
    BY <2>1, <2>2 DEF Swapping, Replacing, At
  <2> QED BY <1>1, <1>4, <1>5, <2>1, <2>2, <2>4, <2>5, EvidenceStep
<1> QED BY <1>6, <1>7 DEF CreateWrite

LEMMA RegisterReadEvidence ==
    ASSUME IInv, NEW p \in Process, RegisterRead(p)
    PROVE  EvidenceInv'
<1> PICK s : s = [proc[p] EXCEPT !.pc = "register", !.trial = trial]
  OBVIOUS
<1>1. /\ proc[p] \in ProcState /\ At(p, {"created"}) /\ At(p, Pending) /\ Document(p)
      /\ files' = files /\ trial' = trial
  BY Typed DEF IInv, EvidenceInv, RegisterRead, Documents, At, Pending
<1>2. s.pc = "register" /\ s.proposal = proc[p].proposal /\ s.date = proc[p].date
  BY <1>1 DEF ProcState
<1>3. proc'[p] = s /\ \A q \in Process \ {p} : proc'[q] = proc[q]
  BY Typed DEF Set, IInv, RegisterRead
<1>4. Document(p)'
  BY <1>1, <1>2, <1>3 DEF Document, At, Trials, RegisterRead
<1>5. Swapping(p)' /\ Replacing(p)'
  BY <1>2, <1>3 DEF Swapping, Replacing, At
<1> QED BY <1>1, <1>2, <1>3, <1>4, <1>5, EvidenceQuiet

LEMMA RegisterGuardEvidence ==
    ASSUME IInv, NEW p \in Process, RegisterGuard(p)
    PROVE  EvidenceInv'
<1> PICK s : s = [proc[p] EXCEPT !.pc = "enlist"]
  OBVIOUS
<1>1. /\ proc[p] \in ProcState /\ At(p, {"register"}) /\ At(p, Pending) /\ Document(p)
      /\ files' = files /\ trial' = trial
  BY Typed DEF IInv, EvidenceInv, RegisterGuard, Documents, At, Pending, Trials
<1>2. s.pc = "enlist" /\ s.proposal = proc[p].proposal /\ s.date = proc[p].date
  BY <1>1 DEF ProcState
<1>3. proc'[p] = s /\ \A q \in Process \ {p} : proc'[q] = proc[q]
  BY Typed DEF Go, Set, IInv, RegisterGuard
<1>4. Document(p)'
  BY <1>1, <1>2, <1>3 DEF Document, At, Trials
<1>5. Swapping(p)' /\ Replacing(p)'
  BY <1>2, <1>3 DEF Swapping, Replacing, At
<1> QED BY <1>1, <1>2, <1>3, <1>4, <1>5, EvidenceQuiet

LEMMA RestartReadEvidence ==
    ASSUME IInv, NEW p \in Process, RestartRead(p)
    PROVE  EvidenceInv'
<1> PICK n : n = [frozen |-> nextId, start |-> proc[p].proposal.date, policy |-> policy,
                  registered |-> {proc[p].proposal}]
  OBVIOUS
<1> PICK s : s = [proc[p] EXCEPT !.pc = "archive", !.trial = trial, !.next = n]
  OBVIOUS
<1>1. /\ proc[p] \in ProcState /\ At(p, {"created"}) /\ At(p, Pending) /\ Document(p)
      /\ Shape(p) /\ files' = files /\ trial' = trial
  BY Typed DEF IInv, EvidenceInv, LedgerInv, RestartRead, Documents, At, Pending
<1>2. /\ s.pc = "archive" /\ s.proposal = proc[p].proposal /\ s.date = proc[p].date
      /\ s.next = n
  BY <1>1 DEF ProcState
<1>3. proc'[p] = s /\ \A q \in Process \ {p} : proc'[q] = proc[q]
  BY Typed DEF Set, IInv, RestartRead
<1>4. Document(p)'
  <2>1. p \in Leased
    BY <1>1 DEF Shape, RestartRead
  <2>2. files[proc[p].date] = proc[p].proposal
        /\ (trial # NoTrial => proc[p].proposal \notin trial.registered)
    BY <1>1, <2>1 DEF Document, At
  <2> QED BY <1>1, <1>2, <1>3, <2>2 DEF Document, At, Trials
<1>5. Swapping(p)' /\ Replacing(p)'
  BY <1>2, <1>3 DEF Swapping, Replacing, At
<1> QED BY <1>1, <1>2, <1>3, <1>4, <1>5, EvidenceQuiet

LEMMA FreezeEvidence ==
    ASSUME IInv, NEW p \in Process, Freeze(p)
    PROVE  EvidenceInv'
<1> PICK d \in Date :
           /\ files[d] # NoFile
           /\ trial' = [frozen |-> nextId, start |-> d, policy |-> policy,
                        registered |-> {files[d]}]
  BY DEF Freeze
<1>1. files' = files /\ proc' = proc /\ p \in Leased /\ MayStart(p) /\ proc[p].pc = "idle"
  BY DEF Freeze, MayStart, At
<1>2. \A q \in Process : TrialFor(q)
  BY <1>1 DEF TrialFor, MayStart
<1>3. RegisteredEvidence'
  <2>1. files[d].date = d
    BY DEF IInv, LedgerInv, FilesDated
  <2> QED BY <1>1, <2>1 DEF RegisteredEvidence
<1>4. ~At(p, Pending)' /\ ~At(p, {"create"})'
  BY <1>1 DEF At, Pending, Trials
<1>5. (Document(p) /\ Swapping(p) /\ Replacing(p))'
  BY <1>4 DEF Document, Swapping, Replacing, At, Pending, Trials
<1> QED BY <1>1, <1>2, <1>3, <1>4, <1>5, EvidenceStep DEF FileStep

LEMMA RegisterWriteEvidence ==
    ASSUME IInv, NEW p \in Process, RegisterWrite(p)
    PROVE  EvidenceInv'
<1>1. /\ At(p, {"enlist"}) /\ At(p, Pending) /\ At(p, Trials) /\ files' = files
      /\ Document(p) /\ TrialHeld(p) /\ Ends(p) /\ RegisteredEvidence
  BY DEF IInv, EvidenceInv, LedgerInv, Claims, RegisterWrite, At, Pending, Trials,
     Ends, Set
<1>2. trial = proc[p].trial /\ trial # NoTrial /\ trial \in Trial
  BY <1>1, Typed DEF TrialHeld, At, IInv
<1>3. trial'.registered = trial.registered \cup {proc[p].proposal}
  BY <1>2 DEF RegisterWrite, Trial
<1>4. RegisteredEvidence'
  <2>1. files[proc[p].date] = proc[p].proposal /\ proc[p].proposal.date = proc[p].date
    BY <1>1, PendingFacts DEF Document
  <2> QED BY <1>1, <1>2, <1>3, <2>1 DEF RegisteredEvidence
<1>5. ASSUME NEW q \in Process \ {p} PROVE TrialFor(q)
  <2> SUFFICES ASSUME q \in Leased, ~At(q, {"idle"}), At(q, Pending)
               PROVE  proc[q].proposal \notin trial'.registered
    BY <1>2 DEF TrialFor
  <2>1. proc[q].proposal # proc[p].proposal
    BY <1>1, OtherProposal
  <2>2. proc[q].proposal \notin trial.registered
    <3>1. Document(q) /\ proc[q].proposal \in Proposal /\ proc[q].proposal.date \in Date
      BY PendingFacts DEF IInv, EvidenceInv
    <3>2. CASE At(q, {"write"})
      BY <1>1, <1>2, <3>1, <3>2 DEF Document, RegisteredEvidence
    <3>3. CASE At(q, {"created"} \cup Trials)
      BY <1>2, <3>1, <3>3 DEF Document
    <3> QED BY <3>2, <3>3 DEF At, Pending
  <2> QED BY <1>3, <2>1, <2>2
<1> QED BY <1>1, <1>4, <1>5, EndDocument, EvidenceStep DEF FileStep

LEMMA RestartArchiveEvidence ==
    ASSUME IInv, NEW p \in Process, RestartArchive(p)
    PROVE  EvidenceInv'
<1> PICK s : s = [proc[p] EXCEPT !.pc = "install"]
  OBVIOUS
<1>1. /\ proc[p] \in ProcState /\ At(p, {"archive"}) /\ At(p, Pending) /\ At(p, Trials)
      /\ Document(p) /\ Shape(p) /\ TrialHeld(p) /\ Swapping(p)
      /\ files' = files /\ trial' = NoTrial
      /\ RegisteredEvidence
  BY Typed DEF IInv, EvidenceInv, LedgerInv, Claims, RestartArchive, At, Pending, Trials
<1>2. /\ s.pc = "install" /\ s.proposal = proc[p].proposal /\ s.date = proc[p].date
      /\ s.next = proc[p].next /\ s.trial = proc[p].trial
  BY <1>1 DEF ProcState
<1>3. proc'[p] = s /\ \A q \in Process \ {p} : proc'[q] = proc[q]
  BY Typed DEF Go, Set, IInv, RestartArchive
<1>4. Document(p)'
  BY <1>1, <1>2, <1>3 DEF Document, At, Trials
<1>5. Swapping(p)'
  <2>1. trial = proc[p].trial /\ trial # NoTrial /\ p \in Leased
    BY <1>1 DEF TrialHeld, Shape, At
  <2>2. proc[p].proposal \notin trial.registered
    BY <1>1, <2>1 DEF Document, At
  <2> QED BY <1>1, <1>2, <1>3, <2>1, <2>2 DEF Swapping, At, RegisteredEvidence
<1>6. Replacing(p)'
  BY <1>1 DEF Replacing
<1>7. FileStep(p) /\ (\A q \in Process : TrialFor(q)) /\ RegisteredEvidence'
  BY <1>1 DEF FileStep, TrialFor, RegisteredEvidence
<1> QED BY <1>1, <1>2, <1>3, <1>4, <1>5, <1>6, <1>7, EvidenceStep

\* Nobody else that holds the lease has anything pending meanwhile.
LEMMA LeasedAlone ==
    ASSUME IInv, NEW p \in Leased, ~At(p, {"idle"})
    PROVE  \A q \in Process \ {p} : TrialFor(q)
<1>1. p \in Process
  BY DEF Process
<1> QED BY <1>1, Alone DEF IInv, TrialFor

LEMMA RestartInstallEvidence ==
    ASSUME IInv, NEW p \in Process, RestartInstall(p)
    PROVE  EvidenceInv'
<1>1. /\ At(p, {"install"}) /\ At(p, Pending) /\ ~At(p, {"idle"}) /\ At(p, Trials)
      /\ Document(p) /\ Swapping(p) /\ Shape(p)
      /\ files' = files /\ trial' = proc[p].next /\ Ends(p)
  BY DEF IInv, EvidenceInv, LedgerInv, RestartInstall, At, Pending, Trials, Ends, Set
<1>2. RegisteredEvidence'
  <2>1. trial'.registered = {proc[p].proposal}
    BY <1>1 DEF Swapping, At
  <2>2. files[proc[p].date] = proc[p].proposal /\ proc[p].proposal.date = proc[p].date
    BY <1>1, PendingFacts DEF Document
  <2> QED BY <1>1, <2>1, <2>2 DEF RegisteredEvidence
<1>3. p \in Leased
  BY <1>1 DEF Shape, At
<1> QED BY <1>1, <1>2, <1>3, LeasedAlone, EndDocument, EvidenceStep DEF FileStep

LEMMA RefuseEvidence ==
    ASSUME IInv, NEW p \in Process, Refuse(p)
    PROVE  EvidenceInv'
<1>1. /\ Shape(p) /\ Document(p) /\ Swapping(p) /\ ~At(p, {"idle"})
      /\ TrialHeld(p) /\ proc[p] \in ProcState /\ RegisteredEvidence
      /\ files \in [Date -> Proposal \cup {NoFile}]
  BY Typed DEF IInv, EvidenceInv, LedgerInv, Claims, Refuse
<1>2. Ends(p)
  <2>1. proc[p].op = "autopilot" => p \in Leased
    BY <1>1 DEF Shape
  <2> QED BY <1>1, <2>1 DEF Refuse, Ends, Set, Staging
<1>3. CASE files' = files /\ UNCHANGED <<trial, archived>>
  BY <1>2, <1>3, EvidenceEnd
<1>4. CASE /\ proc[p].op \in {"propose", "restart"} /\ At(p, {"created"} \cup Trials)
           /\ files' = Unlinked(p) /\ trial' \in {trial, proc[p].trial}
           /\ trial' # trial => At(p, {"install"})
  <2>1. p \in Leased /\ At(p, Pending)
    BY <1>1, <1>4 DEF Shape, At, Pending
  <2>2. files[proc[p].date] = proc[p].proposal /\ proc[p].date \in Date
        /\ proc[p].proposal # NoFile
    BY <1>4, <2>1, PendingFacts
  <2>3. trial' # NoTrial => /\ trial' \in Trial /\ proc[p].proposal \notin trial'.registered
                            /\ \A r \in trial'.registered : files[r.date] = r
    <3>1. CASE trial' = trial
      BY <1>1, <1>4, <2>1, <3>1, Typed DEF Document, RegisteredEvidence, IInv
    <3>2. CASE trial' # trial
      BY <1>1, <1>4, <3>2 DEF Swapping, ProcState
    <3> QED BY <3>1, <3>2
  <2>4. RegisteredEvidence'
    <3> SUFFICES ASSUME trial' # NoTrial, NEW r \in trial'.registered
                 PROVE  files'[r.date] = r
      BY DEF RegisteredEvidence
    <3>1. files[r.date] = r /\ r # proc[p].proposal /\ r.date \in Date
      BY <2>3, RegisteredTyped
    <3> QED BY <1>1, <1>4, <2>2, <3>1 DEF Unlinked
  <2>5. FileStep(p)
    BY <1>4, <2>1 DEF FileStep
  <2> QED BY <1>1, <1>2, <2>1, <2>4, <2>5, LeasedAlone, EndDocument, EvidenceStep
<1> QED
  <2>1. \A pcs \in {{"created", "register", "enlist"}, {"created", "archive"}, {"install"}} :
           At(p, pcs) => At(p, {"created"} \cup Trials)
    BY DEF At, Trials
  <2> QED BY <1>3, <1>4, <2>1 DEF Refuse

LEMMA StepEvidence == Premises /\ IInv /\ [Next]_vars => EvidenceInv'
<1> SUFFICES ASSUME Premises, IInv, [Next]_vars PROVE EvidenceInv'
  OBVIOUS
<1>1. CASE UNCHANGED <<files, trial, proc>>
  BY <1>1 DEF IInv, EvidenceInv, RegisteredEvidence, DistinctIds, Document, Swapping,
     Replacing, At
<1>2. CASE EditPolicy \/ Tick \/ UNCHANGED vars
  BY <1>1, <1>2 DEF EditPolicy, Tick, vars, Documents
<1>3. ASSUME NEW p \in Process,
             \/ StartPropose(p) \/ StartRestart(p) \/ StartStage(p) \/ Freeze(p)
             \/ StartExecute(p) \/ StartMark(p) \/ StartAutopilot(p) \/ AutopilotStage(p)
      PROVE  EvidenceInv'
  BY <1>3, StartsEvidence, FreezeEvidence, BooksEvidence
<1>4. ASSUME NEW p \in Process, AccountWrite(p) \/ Crash(p)
      PROVE  EvidenceInv'
  <2>1. Shape(p)
    BY DEF IInv, LedgerInv
  <2>2. Ends(p)
    BY <1>4, <2>1 DEF AccountWrite, Crash, Ends, Set, Staging, Shape, At
  <2> QED BY <1>4, <2>2, EvidenceEnd DEF AccountWrite, Crash, Documents
<1>5. ASSUME NEW p \in Process,
             \/ CreateGuard(p) \/ CreateWrite(p)
             \/ RegisterRead(p) \/ RegisterGuard(p) \/ RegisterWrite(p)
             \/ RestartRead(p) \/ RestartArchive(p) \/ RestartInstall(p)
             \/ AccountGuard(p) \/ Refuse(p)
      PROVE  EvidenceInv'
  BY <1>5, CreateGuardEvidence, CreateWriteEvidence, RegisterReadEvidence,
     RegisterGuardEvidence, RegisterWriteEvidence, RestartReadEvidence,
     RestartArchiveEvidence, RestartInstallEvidence, BooksEvidence, RefuseEvidence
<1> QED BY <1>2, <1>3, <1>4, <1>5 DEF Next

LEMMA EvidenceHolds == ASSUME Premises PROVE Spec => []IInv
<1>1. Init => IInv
  BY InitInv, InitEvidence DEF IInv
<1>2. IInv /\ [Next]_vars => IInv'
  BY StepInv, StepEvidence DEF IInv
<1> QED BY <1>1, <1>2, PTL DEF Spec

-----------------------------------------------------------------------------
(* The theorems.                                                           *)

\* A trial is frozen where none is, written over by who holds its lock, taken
\* into the archive, or put back from there.
LEMMA TrialMoves ==
    ASSUME LedgerInv, [Next]_vars
    PROVE  \/ trial' = trial /\ archived' = archived
           \/ trial = NoTrial /\ archived' = archived
           \/ \E p \in Process : RegisterWrite(p)
           \/ archived' = archived \cup {trial}
           \/ \E t : trial = NoTrial /\ trial' = t /\ archived' = archived \ {t}
<1>1. CASE EditPolicy \/ Tick \/ UNCHANGED vars
  BY <1>1 DEF EditPolicy, Tick, vars, Documents
<1>2. ASSUME NEW p \in Process,
             \/ StartPropose(p) \/ StartRestart(p) \/ StartStage(p) \/ Freeze(p)
             \/ StartExecute(p) \/ StartMark(p) \/ StartAutopilot(p) \/ AutopilotStage(p)
             \/ CreateGuard(p) \/ CreateWrite(p)
             \/ RegisterRead(p) \/ RegisterGuard(p) \/ RestartRead(p)
             \/ AccountGuard(p) \/ AccountWrite(p) \/ Crash(p)
      PROVE  trial = NoTrial \/ trial' = trial
  BY <1>2 DEF StartPropose, StartRestart, StartStage, Freeze, StartExecute, StartMark,
     StartAutopilot, AutopilotStage, CreateGuard, CreateWrite, RegisterRead, RegisterGuard,
     RestartRead, AccountGuard, AccountWrite, Crash, Documents
<1>3. ASSUME NEW p \in Process,
             \/ StartPropose(p) \/ StartRestart(p) \/ StartStage(p) \/ Freeze(p)
             \/ StartExecute(p) \/ StartMark(p) \/ StartAutopilot(p) \/ AutopilotStage(p)
             \/ CreateGuard(p) \/ CreateWrite(p)
             \/ RegisterRead(p) \/ RegisterGuard(p) \/ RestartRead(p)
             \/ AccountGuard(p) \/ AccountWrite(p) \/ Crash(p)
      PROVE  archived' = archived
  BY <1>3 DEF StartPropose, StartRestart, StartStage, Freeze, StartExecute, StartMark,
     StartAutopilot, AutopilotStage, CreateGuard, CreateWrite, RegisterRead, RegisterGuard,
     RestartRead, AccountGuard, AccountWrite, Crash, Documents
<1>4. ASSUME NEW p \in Process, RestartArchive(p)
      PROVE  archived' = archived \cup {trial}
  BY <1>4 DEF RestartArchive
<1>5. ASSUME NEW p \in Process, RestartInstall(p)
      PROVE  trial = NoTrial /\ archived' = archived
  BY <1>5 DEF RestartInstall, LedgerInv, Claims, TrialHeld
<1>6. ASSUME NEW p \in Process, Refuse(p)
      PROVE  \/ trial' = trial /\ archived' = archived
             \/ trial = NoTrial /\ trial' = proc[p].trial
                                /\ archived' = archived \ {proc[p].trial}
  BY <1>6 DEF Refuse, LedgerInv, Claims, TrialHeld
<1> QED BY <1>1, <1>2, <1>3, <1>4, <1>5, <1>6 DEF Next

LEMMA NothingLost ==
    ASSUME LedgerInv, [Next]_vars
    PROVE  Registered \subseteq Registered'
<1> SUFFICES ASSUME NEW t \in archived \cup {trial}, t # NoTrial, NEW r \in t.registered
             PROVE  r \in Registered'
  BY DEF Registered
<1>1. ASSUME NEW u \in archived' \cup {trial'}, u # NoTrial, r \in u.registered
      PROVE  r \in Registered'
  BY <1>1 DEF Registered
<1>2. ASSUME NEW p \in Process, RegisterWrite(p)
      PROVE  r \in Registered'
  <2>1. trial' \in Trial /\ trial.registered \subseteq trial'.registered /\ trial' # NoTrial
        /\ archived' = archived
    <3>1. proc[p].trial = trial /\ trial \in Trial /\ proc[p].proposal \in Proposal
      <4>1. Shape(p) /\ TrialHeld(p)
        BY DEF LedgerInv, Claims
      <4> QED BY <1>2, <4>1, Typed DEF TrialHeld, Shape, RegisterWrite, At, Pending, Trials
    <3> QED BY <1>2, <3>1, NoneOfThem DEF RegisterWrite, Trial
  <2>2. CASE t = trial
    BY <1>1, <2>1, <2>2
  <2>3. CASE t # trial
    BY <1>1, <2>1, <2>3
  <2> QED BY <2>2, <2>3
<1>3. CASE \/ trial' = trial /\ archived' = archived
           \/ trial = NoTrial /\ archived' = archived
           \/ archived' = archived \cup {trial}
           \/ \E u : trial = NoTrial /\ trial' = u /\ archived' = archived \ {u}
  <2>1. t \in archived' \cup {trial'}
    BY <1>3
  <2> QED BY <1>1, <2>1
<1> QED BY <1>2, <1>3, TrialMoves

\* The proposals a trial registered are still the documents on disk, and no
\* registration is ever lost (register_forward_proposal,
\* replace_drifted_forward_trial), as long as a command does not replace
\* proposals under a trial while direct callers run.
THEOREM EvidenceTheorem ==
    ASSUME Premises
    PROVE  Spec => EvidenceKept
<1>1. IInv => TypeOK /\ RegisteredEvidence
  BY DEF IInv, LedgerInv, EvidenceInv
<1>2. IInv /\ [Next]_vars => [Registered \subseteq Registered']_vars
  BY NothingLost DEF IInv
<1> QED BY <1>1, <1>2, EvidenceHolds, PTL DEF Spec, EvidenceKept, TrialHistory

\* The account changes by one rename of the command that holds its lock.
LEMMA AccountMoves ==
    ASSUME [Next]_vars
    PROVE  account' = account \/ \E p \in Process : AccountWrite(p)
<1>1. CASE EditPolicy \/ Tick \/ UNCHANGED vars
  BY <1>1 DEF EditPolicy, Tick, vars, Documents
<1>2. ASSUME NEW p \in Process,
             \/ StartPropose(p) \/ StartRestart(p) \/ StartStage(p) \/ Freeze(p)
             \/ StartExecute(p) \/ StartMark(p) \/ StartAutopilot(p) \/ AutopilotStage(p)
             \/ CreateGuard(p) \/ CreateWrite(p)
             \/ RegisterRead(p) \/ RegisterGuard(p) \/ RegisterWrite(p)
             \/ RestartRead(p) \/ RestartArchive(p) \/ RestartInstall(p)
             \/ AccountGuard(p) \/ Refuse(p) \/ Crash(p)
      PROVE  account' = account
  BY <1>2 DEF StartPropose, StartRestart, StartStage, Freeze, StartExecute, StartMark,
     StartAutopilot, AutopilotStage, CreateGuard, CreateWrite, RegisterRead, RegisterGuard,
     RegisterWrite, RestartRead, RestartArchive, RestartInstall, AccountGuard, Refuse,
     Crash, Documents
<1> QED BY <1>1, <1>2 DEF Next

\* The fills as the ledger sees them.
Entries(fills) ==
    [i \in DOMAIN fills |-> [date |-> fills[i].proposal.date,
                             basis |-> fills[i].proposal.basis]]

Entry == [date : Date, basis : 0..MaxVersion]

LEMMA EntriesAppend ==
    ASSUME NEW fills \in Seq(Fill), NEW f \in Fill
    PROVE  Entries(Append(fills, f)) =
             Append(Entries(fills), [date |-> f.proposal.date, basis |-> f.proposal.basis])
<1> PICK e : e = [date |-> f.proposal.date, basis |-> f.proposal.basis]
  OBVIOUS
<1>1. \A g \in Fill : [date |-> g.proposal.date, basis |-> g.proposal.basis] \in Entry
  BY DEF Fill, Proposal, Entry
<1>2. Entries(fills) \in Seq(Entry) /\ Len(Entries(fills)) = Len(fills)
      /\ DOMAIN Entries(fills) = 1..Len(fills) /\ e \in Entry
  BY <1>1 DEF Entries
<1>3. DOMAIN Entries(Append(fills, f)) = 1..(Len(fills) + 1)
      /\ DOMAIN Append(Entries(fills), e) = 1..(Len(fills) + 1)
  BY <1>2 DEF Entries
<1>4. ASSUME NEW i \in 1..(Len(fills) + 1)
      PROVE  Entries(Append(fills, f))[i] = Append(Entries(fills), e)[i]
  <2>1. CASE i = Len(fills) + 1
    BY <1>2, <2>1 DEF Entries
  <2>2. CASE i \in 1..Len(fills)
    <3>1. Append(fills, f)[i] = fills[i] /\ i \in DOMAIN fills
          /\ i \in DOMAIN Append(fills, f)
      BY <2>2
    <3>2. Append(Entries(fills), e)[i] = Entries(fills)[i]
      BY <1>2, <2>2
    <3>3. Entries(Append(fills, f))[i] = [date |-> fills[i].proposal.date,
                                          basis |-> fills[i].proposal.basis]
      BY <3>1 DEF Entries
    <3>4. Entries(fills)[i] = [date |-> fills[i].proposal.date,
                               basis |-> fills[i].proposal.basis]
      BY <3>1 DEF Entries
    <3> QED BY <3>2, <3>3, <3>4
  <2>3. i = Len(fills) + 1 \/ i \in 1..Len(fills)
    <3>1. Len(fills) \in Nat
      OBVIOUS
    <3>2. i \in 1..(Len(fills) + 1)
      BY <1>4
    <3> QED BY <3>1, <3>2
  <2> QED BY <2>1, <2>2, <2>3
<1> QED BY <1>2, <1>3, <1>4 DEF Entries

LEMMA LedgerStep ==
    ASSUME LedgerInv, [Next]_vars
    PROVE  [Ledger!LedgerNext]_(Ledger!ledgerVars)
<1>1. CASE account' = account
  BY <1>1 DEF Ledger!ledgerVars
<1>2. ASSUME NEW p \in Process, AccountWrite(p)
      PROVE  Ledger!LedgerNext
  <2>1. account \in Account /\ account.fills \in Seq(Fill)
    BY Typed DEF Account
  <2>2. CASE proc[p].op = "mark" /\ account'.fills = account.fills
    BY <1>2, <2>2, Written DEF Ledger!LedgerNext, Ledger!Mark
  <2>3. CASE proc[p].op # "mark"
    <3> PICK f : f = [proposal |-> proc[p].proposal, at |-> Moment(p)]
      OBVIOUS
    <3>1. /\ account'.version = account.version + 1
          /\ f.proposal = proc[p].proposal /\ f.proposal.basis = account.version
          /\ \A i \in DOMAIN account.fills :
                account.fills[i].proposal.date < f.proposal.date
          /\ account'.fills = Append(account.fills, f) /\ f.proposal \in Proposal
      BY <1>2, <2>3, Written
    <3>2. Moment(p) \in 0..MaxTime /\ f \in Fill /\ f.proposal.date \in Date
      <4>1. InWindow(proc[p].date, Moment(p)) /\ proc[p] \in ProcState
        BY <1>2, <2>3, Typed DEF LedgerInv, Claims, AccountHeld, AccountWrite
      <4>2. proc[p].moment # Never => Moment(p) \in 0..MaxTime
        BY <4>1 DEF Moment, ProcState
      <4>3. proc[p].moment = Never => Moment(p) \in 0..MaxTime
        BY Typed DEF Moment
      <4> QED BY <3>1, <4>2, <4>3 DEF Fill, Proposal
    <3>3. Entries(account'.fills) = Append(Entries(account.fills),
             [date |-> f.proposal.date, basis |-> account.version])
      BY <2>1, <3>1, <3>2, EntriesAppend
    <3>4. \A i \in DOMAIN Entries(account.fills) :
             Entries(account.fills)[i].date < f.proposal.date
      BY <3>1 DEF Entries
    <3> QED BY <3>1, <3>2, <3>3, <3>4 DEF Entries, Ledger!LedgerNext, Ledger!Fill
  <2> QED BY <1>2, <2>2, <2>3, Written
<1> QED BY <1>1, <1>2, AccountMoves

\* The paper account is a ledger of simulated fills: appended one by one, each
\* of a later proposal, each decided on the account it changed, none lost
\* (execute_paper_proposal, mark_paper_account).
THEOREM LedgerTheorem == Spec => LedgerPromise
<1>1. Init => Ledger!LedgerInit
  BY DEF Init, Ledger!LedgerInit
<1>2. LedgerInv /\ [Next]_vars => [Ledger!LedgerNext]_(Ledger!ledgerVars)
  BY LedgerStep
<1> QED BY <1>1, <1>2, LedgerInvHolds, PTL DEF Spec, LedgerPromise, Ledger!LedgerSpec

-----------------------------------------------------------------------------
(* When a fill is made, and of what.                                       *)

LEMMA FilesMove ==
    ASSUME [Next]_vars
    PROVE  \/ files' = files
           \/ \E p \in Process : files' = Unlinked(p) \/ CreateWrite(p)
<1>1. CASE EditPolicy \/ Tick \/ UNCHANGED vars
  BY <1>1 DEF EditPolicy, Tick, vars, Documents
<1>2. ASSUME NEW p \in Process,
             \/ StartPropose(p) \/ StartRestart(p) \/ StartStage(p) \/ Freeze(p)
             \/ StartExecute(p) \/ StartMark(p) \/ StartAutopilot(p) \/ AutopilotStage(p)
             \/ CreateGuard(p)
             \/ RegisterRead(p) \/ RegisterGuard(p) \/ RegisterWrite(p)
             \/ RestartRead(p) \/ RestartArchive(p) \/ RestartInstall(p)
             \/ AccountGuard(p) \/ AccountWrite(p) \/ Crash(p)
      PROVE  files' = files
  BY <1>2 DEF StartPropose, StartRestart, StartStage, Freeze, StartExecute, StartMark,
     StartAutopilot, AutopilotStage, CreateGuard, RegisterRead, RegisterGuard,
     RegisterWrite, RestartRead, RestartArchive, RestartInstall, AccountGuard,
     AccountWrite, Crash, Documents
<1>3. ASSUME NEW p \in Process, Refuse(p)
      PROVE  files' = files \/ files' = Unlinked(p)
  BY <1>3 DEF Refuse
<1> QED BY <1>1, <1>2, <1>3 DEF Next

\* The step that adds a fill is the commit of its command, and nobody else's.
LEMMA FillStep ==
    ASSUME LedgerInv, [Next]_vars, Len(account'.fills) > Len(account.fills)
    PROVE  \E p \in Process : /\ AccountWrite(p) /\ proc[p].op # "mark"
                              /\ \A q \in Process : proc[q].pc = "commit" => q = p
<1>1. account' # account
  <2>1. Len(account.fills) \in Nat
    BY Typed DEF Account
  <2> QED BY <2>1
<1> PICK p \in Process : AccountWrite(p)
  BY <1>1, AccountMoves
<1>2. proc[p].op # "mark"
  <2>1. Len(account.fills) \in Nat
    BY Typed DEF Account
  <2>2. proc[p].op = "mark" => account'.fills = account.fills
    BY Written
  <2>3. account'.fills # account.fills
    BY <2>1
  <2> QED BY <2>2, <2>3
<1>3. \A q \in Process : proc[q].pc = "commit" => q = p
  BY Alone DEF AccountWrite, At, Books
<1> QED BY <1>2, <1>3

LEMMA NoBackfillStep ==
    ASSUME TRUE \notin AutopilotConfirms, LedgerInv, [Next]_vars
    PROVE  /\ Len(account'.fills) > Len(account.fills) =>
                \A p \in Process : proc[p].pc = "commit" => time = 2 * (proc[p].date + 1) + 1
           /\ \A d \in Date : files'[d] \notin {files[d], NoFile} => time < 2 * (d + 1)
<1>1. ASSUME Len(account'.fills) > Len(account.fills),
             NEW p \in Process, proc[p].pc = "commit"
      PROVE  time = 2 * (proc[p].date + 1) + 1
  <2>1. AccountWrite(p) /\ proc[p].op # "mark"
    BY <1>1, FillStep
  <2>2. Shape(p) /\ AccountHeld(p) /\ At(p, {"commit"}) /\ At(p, Books)
    BY <2>1 DEF LedgerInv, Claims, AccountWrite, At, Books
  <2>3. proc[p].moment = Never /\ proc[p].date \in Date
    BY <2>2 DEF Shape, At
  <2>4. InWindow(proc[p].date, time)
    BY <2>1, <2>2, <2>3 DEF AccountHeld, Moment
  <2>5. time \in Nat /\ proc[p].date \in Nat
    <3>1. time \in Nat
      BY Typed
    <3>2. proc[p].date \in Nat
      BY <2>3, DateFacts
    <3> QED BY <3>1, <3>2
  <2> QED BY <2>4, <2>5 DEF InWindow, Open
<1>2. ASSUME NEW d \in Date, files'[d] \notin {files[d], NoFile}
      PROVE  time < 2 * (d + 1)
  <2>1. files \in [Date -> Proposal \cup {NoFile}]
    BY Typed
  <2>2. PICK p \in Process : CreateWrite(p)
    BY <1>2, <2>1, FilesMove DEF Unlinked
  <2>3. d = proc[p].date /\ Prospective(d)
    BY <1>2, <2>1, <2>2 DEF CreateWrite, LedgerInv, Claims
  <2> QED BY <2>3 DEF Prospective, Open
<1> QED BY <1>1, <1>2

LEMMA GovernedStep ==
    ASSUME TRUE \notin AutopilotConfirms, LedgerInv, [Next]_vars
    PROVE  \A p \in Leased :
              proc[p].pc = "commit" /\ Len(account'.fills) > Len(account.fills) =>
                /\ trial # NoTrial /\ trial.policy = policy
                /\ proc[p].proposal \in trial.registered
<1> SUFFICES ASSUME NEW p \in Leased, proc[p].pc = "commit",
                    Len(account'.fills) > Len(account.fills)
             PROVE  /\ trial # NoTrial /\ trial.policy = policy
                    /\ proc[p].proposal \in trial.registered
  OBVIOUS
<1>1. p \in Process
  BY DEF Process
<1>2. proc[p].op # "mark"
  BY <1>1, FillStep
<1>3. Shape(p) /\ GovernedStill(p)
  BY <1>1 DEF LedgerInv, Claims
<1>4. proc[p].op = "execute"
  BY <1>2, <1>3 DEF Shape, At, Books
<1> QED BY <1>3, <1>4 DEF GovernedStill, At

\* Every fill is made between the close of its session and the next open, of a
\* proposal written before that session opened; one made by a command is of a
\* registered proposal under the frozen policy (paper_proposal_timing_status,
\* require_registered_forward_proposal), as long as autopilot confirms no fill.
THEOREM FillsTheorem ==
    ASSUME TRUE \notin AutopilotConfirms
    PROVE  Spec => FillsSound
<1>1. LedgerInv /\ [Next]_vars =>
        [/\ Len(account'.fills) > Len(account.fills) =>
              \A p \in Process : proc[p].pc = "commit" => time = 2 * (proc[p].date + 1) + 1
         /\ \A d \in Date : files'[d] \notin {files[d], NoFile} => time < 2 * (d + 1)]_vars
  BY NoBackfillStep
<1>2. LedgerInv /\ [Next]_vars =>
        [\A p \in Leased :
           proc[p].pc = "commit" /\ Len(account'.fills) > Len(account.fills) =>
             /\ trial # NoTrial /\ trial.policy = policy
             /\ proc[p].proposal \in trial.registered]_vars
  BY GovernedStep
<1> QED BY <1>1, <1>2, LedgerInvHolds, PTL DEF Spec, FillsSound, NoBackfill, FillsGoverned

-----------------------------------------------------------------------------
(* Numbers.                                                                *)

LEMMA DivNat ==
  ASSUME NEW a \in Nat, NEW d \in Nat \ {0}
  PROVE  a \div d \in Nat /\ d * (a \div d) <= a /\ a < d * (a \div d) + d
OBVIOUS

LEMMA DivBound ==
  ASSUME NEW a \in Nat, NEW d \in Nat \ {0}, NEW c \in Nat, a <= d * c
  PROVE  a \div d <= c
<1> PICK q \in Nat : q = a \div d
  BY DivNat
<1>1. d * q <= d * c
  BY DivNat
<1> SUFFICES ASSUME c < q PROVE FALSE
  OBVIOUS
<1>2. PICK k \in Nat : q = c + 1 + k
  <2>1. q - c - 1 \in Nat /\ q = c + 1 + (q - c - 1)
    OBVIOUS
  <2> QED BY <2>1
<1>3. d * q = d * c + d + d * k
  BY <1>2
<1>4. d * k \in Nat
  OBVIOUS
<1> QED BY <1>1, <1>3, <1>4

LEMMA DivMono ==
  ASSUME NEW a \in Nat, NEW b \in Nat, NEW d \in Nat \ {0}, a <= b
  PROVE  a \div d <= b \div d
<1> PICK q, r \in Nat : q = a \div d /\ r = b \div d
  BY DivNat
<1>1. d * q <= a /\ b < d * r + d
  BY DivNat
<1> SUFFICES ASSUME r < q PROVE FALSE
  OBVIOUS
<1>2. PICK k \in Nat : q = r + 1 + k
  <2>1. q - r - 1 \in Nat /\ q = r + 1 + (q - r - 1)
    OBVIOUS
  <2> QED BY <2>1
<1>3. d * q = d * r + d + d * k
  BY <1>2
<1>4. d * k \in Nat
  OBVIOUS
<1> QED BY <1>1, <1>3, <1>4

(* A tax of at most 100 percent takes no more than what it is raised on.   *)
LEMMA PercentGrows ==
  ASSUME NEW a \in Nat, NEW n \in Nat, NEW p \in 0..100
  PROVE  ((a + n) * p) \div 100 <= (a * p) \div 100 + n
<1> PICK x, y \in Nat : x = a * p /\ y = n * p
  OBVIOUS
<1>1. (a + n) * p = x + y
  OBVIOUS
<1>2. y <= 100 * n
  <2>1. PICK q \in Nat : p + q = 100
    <3>1. 100 - p \in Nat
      OBVIOUS
    <3> QED BY <3>1
  <2>2. n * p + n * q = 100 * n
    BY <2>1
  <2>3. n * q \in Nat
    OBVIOUS
  <2> QED BY <2>2, <2>3
<1>3. (x + y) \div 100 <= x \div 100 + n
  BY <1>2
<1> QED BY <1>1, <1>3

LEMMA LeastNat ==
  ASSUME NEW S \in SUBSET Nat, S # {}
  PROVE  Min(S) \in S /\ \A x \in S : Min(S) <= x
<1>1. PICK t \in S : \A y \in S : ~ (<<y, t>> \in OpToRel(<, Nat))
  BY NatLessThanWellFounded, WFMin
<1>2. \A y \in S : ~ (y < t)
  <2> SUFFICES ASSUME NEW y \in S PROVE ~ (y < t)
    OBVIOUS
  <2>1. y \in Nat /\ t \in Nat /\ <<y, t>> \notin OpToRel(<, Nat)
    BY <1>1
  <2> QED BY <2>1, Zenon DEF OpToRel
<1>3. \A y \in S : t =< y
  BY <1>2
<1> QED BY <1>3, Zenon DEF Min

(* Induction without an operator: the smallest number that fails.          *)
LEMMA Counted ==
  ASSUME NEW T \in SUBSET Nat, 0 \in T, \A n \in Nat : n \in T => n + 1 \in T
  PROVE  T = Nat
<1> SUFFICES ASSUME Nat \ T # {} PROVE FALSE
  OBVIOUS
<1>1. PICK m \in Nat \ T : \A x \in Nat \ T : m <= x
  BY LeastNat
<1>2. m # 0 /\ m - 1 \in Nat
  OBVIOUS
<1>3. m - 1 \in T
  BY <1>1, <1>2
<1>4. (m - 1) + 1 = m
  OBVIOUS
<1> QED BY <1>2, <1>3, <1>4

LEMMA Lesser ==
  ASSUME NEW a \in Int, NEW b \in Int
  PROVE  Min({a, b}) = IF a <= b THEN a ELSE b
<1>1. \E x \in {a, b} : \A y \in {a, b} : x =< y
  OBVIOUS
<1>2. Min({a, b}) \in {a, b} /\ \A y \in {a, b} : Min({a, b}) =< y
  BY <1>1, Zenon DEF Min
<1> QED BY <1>2

LEMMA Positive ==
  ASSUME NEW a \in Int
  PROVE  Max({a, 0}) = IF a >= 0 THEN a ELSE 0
<1>1. \E x \in {a, 0} : \A y \in {a, 0} : x >= y
  OBVIOUS
<1>2. Max({a, 0}) \in {a, 0} /\ \A y \in {a, 0} : Max({a, 0}) >= y
  BY <1>1, Zenon DEF Max
<1> QED BY <1>2

LEMMA Greatest ==
  ASSUME NEW n \in Nat, NEW S \in SUBSET (1..n), S # {}
  PROVE  Max(S) \in S /\ \A x \in S : x <= Max(S)
<1> DEFINE T == {n - x : x \in S}
<1>1. T \in SUBSET Nat /\ T # {}
  <2>1. \A x \in S : n - x \in Nat
    OBVIOUS
  <2> QED BY <2>1 DEF T
<1>2. PICK t \in T : \A y \in T : t <= y
  <2> HIDE DEF T
  <2> QED BY <1>1, LeastNat
<1>3. PICK m \in S : t = n - m
  BY DEF T
<1>4. \A x \in S : n - x \in T
  BY DEF T
<1> HIDE DEF T
<1>5. \A x \in S : m >= x
  BY <1>1, <1>2, <1>3, <1>4
<1>6. Max(S) \in S /\ \A x \in S : Max(S) >= x
  BY <1>5, Zenon DEF Max
<1> QED BY <1>6

-----------------------------------------------------------------------------
(* Loops.  "Do" is one round of each of the loops, on the element or the   *)
(* position x, "Pick" the order in which they go: one lemma says of all    *)
(* that the fold by which they are defined exists.                         *)

Chosen(x) == CHOOSE y \in x : TRUE

Do(kind, p, acc, x) ==
  CASE kind = "sum"     -> p[x] + acc
    [] kind = "lot"     -> SellLot(acc, p.lots[x], p.price, p.day, p.terms)
    [] kind = "convert" -> IF acc.refused THEN acc ELSE Convert(acc, p.events[x], p.day, p.rows)
    [] kind = "sell"    -> IF acc.refused THEN acc
                           ELSE Sell(acc, p.keys[x], p.over[p.keys[x]], p.rows[p.keys[x]].close, p.day)
    [] kind = "buy"     -> IF acc.refused THEN acc
                           ELSE Buy(acc, p.keys[x], p.amounts[p.keys[x]], p.rows[p.keys[x]].close, p.day)
    [] kind = "day"     -> IF acc.refused THEN acc
                           ELSE Closing(acc, p.days[x], RowsOn(p.world, p.loaded, p.days[x]),
                                        p.events, p.targets, p.entry)

Pick(kind, x) == IF kind = "sum" THEN Chosen(x) ELSE Max(x)

IsFold(f, D, kind, p, base) ==
  f = [x \in D |-> IF x = {} THEN base ELSE Do(kind, p, f[x \ {Pick(kind, x)}], Pick(kind, x))]

Small(S, k) == {x \in SUBSET S : Cardinality(x) <= k}

Orderly(S, kind) ==
  /\ IsFiniteSet(S)
  /\ kind = "sum" \/ \E n \in Nat : S = 1..n

LEMMA PickIn ==
  ASSUME NEW S, NEW kind, Orderly(S, kind), NEW x \in SUBSET S, x # {}
  PROVE  /\ Pick(kind, x) \in x /\ x \ {Pick(kind, x)} \in SUBSET S
         /\ Cardinality(x) \in Nat /\ Cardinality(x \ {Pick(kind, x)}) = Cardinality(x) - 1
<1>1. Pick(kind, x) \in x
  <2>1. CASE kind = "sum"
    BY <2>1 DEF Pick, Chosen
  <2>2. CASE kind # "sum"
    BY <2>2, Greatest DEF Pick, Orderly
  <2> QED BY <2>1, <2>2
<1>2. IsFiniteSet(x)
  BY FS_Subset DEF Orderly
<1>3. Cardinality(x) \in Nat
  BY <1>2, FS_CardinalityType
<1>4. Cardinality(x \ {Pick(kind, x)}) = Cardinality(x) - 1
  BY <1>1, <1>2, FS_RemoveElement
<1> QED BY <1>1, <1>3, <1>4

LEMMA FoldLonger ==
  ASSUME NEW S, NEW kind, Orderly(S, kind), NEW p, NEW base, NEW k \in Nat,
         NEW f, IsFold(f, Small(S, k), kind, p, base)
  PROVE  \E g : IsFold(g, Small(S, k + 1), kind, p, base)
<1> DEFINE D == Small(S, k)
           E == Small(S, k + 1)
           g == [x \in E |-> IF x \in D THEN f[x]
                             ELSE Do(kind, p, f[x \ {Pick(kind, x)}], Pick(kind, x))]
<1>1. ASSUME NEW x \in D
      PROVE f[x] = IF x = {} THEN base ELSE Do(kind, p, f[x \ {Pick(kind, x)}], Pick(kind, x))
  BY DEF IsFold
<1>2. {} \in D
  BY FS_EmptySet DEF Small
<1>3. ASSUME NEW x \in E, x # {} PROVE x \ {Pick(kind, x)} \in D /\ x \ {Pick(kind, x)} \in E
  <2>1. Cardinality(x) \in Nat /\ Cardinality(x) <= k + 1 /\ x \in SUBSET S
        /\ x \ {Pick(kind, x)} \in SUBSET S /\ Cardinality(x \ {Pick(kind, x)}) = Cardinality(x) - 1
    BY <1>3, PickIn DEF Small
  <2> QED BY <2>1 DEF Small
<1>4. ASSUME NEW x \in E
      PROVE g[x] = IF x = {} THEN base ELSE Do(kind, p, g[x \ {Pick(kind, x)}], Pick(kind, x))
  <2>1. CASE x = {}
    BY <1>1, <1>2, <2>1
  <2>2. CASE x # {}
    <3>1. g[x \ {Pick(kind, x)}] = f[x \ {Pick(kind, x)}]
      BY <1>3, <2>2
    <3>2. g[x] = Do(kind, p, f[x \ {Pick(kind, x)}], Pick(kind, x))
      BY <1>1, <2>2
    <3> QED BY <2>2, <3>1, <3>2
  <2> QED BY <2>1, <2>2
<1>5. g = [x \in E |-> g[x]]
  OBVIOUS
<1> HIDE DEF g
<1>6. IsFold(g, E, kind, p, base)
  BY <1>4, <1>5, Zenon DEF IsFold
<1> QED BY <1>6

LEMMA FoldIs ==
  ASSUME NEW S, NEW kind, Orderly(S, kind), NEW p, NEW base
  PROVE  \E f : IsFold(f, SUBSET S, kind, p, base)
<1> DEFINE T == {k \in Nat : \E f : IsFold(f, Small(S, k), kind, p, base)}
<1>1. 0 \in T
  <2> DEFINE f == [x \in Small(S, 0) |-> base]
  <2>1. ASSUME NEW x \in Small(S, 0) PROVE x = {}
    <3>1. IsFiniteSet(x) /\ Cardinality(x) <= 0
      BY FS_Subset DEF Small, Orderly
    <3>2. Cardinality(x) \in Nat /\ (Cardinality(x) = 0 <=> x = {})
      BY <3>1, FS_CardinalityType, FS_EmptySet
    <3> QED BY <3>1, <3>2
  <2>2. f = [x \in Small(S, 0) |-> IF x = {} THEN base
                                   ELSE Do(kind, p, f[x \ {Pick(kind, x)}], Pick(kind, x))]
    BY <2>1
  <2>3. IsFold(f, Small(S, 0), kind, p, base)
    BY <2>2, Zenon DEF IsFold
  <2> HIDE DEF f
  <2> QED BY <2>3
<1>2. \A k \in Nat : k \in T => k + 1 \in T
  <2> SUFFICES ASSUME NEW k \in Nat, NEW f, IsFold(f, Small(S, k), kind, p, base) PROVE k + 1 \in T
    OBVIOUS
  <2> QED BY FoldLonger
<1>3. T \in SUBSET Nat
  OBVIOUS
<1> HIDE DEF T
<1>4. T = Nat
  BY <1>1, <1>2, <1>3, Counted
<1>5. Cardinality(S) \in Nat /\ Small(S, Cardinality(S)) = SUBSET S
  BY FS_CardinalityType, FS_Subset DEF Small, Orderly
<1>6. Cardinality(S) \in T
  BY <1>4, <1>5
<1> QED BY <1>5, <1>6, Zenon DEF T

(* A loop over the positions of a sequence, round after round.             *)
Rounds(f, n, kind, p, base, result) ==
  /\ f[0] = base /\ result = f[n]
  /\ \A i \in 1..n : f[i] = Do(kind, p, f[i - 1], i)

LEMMA RoundsIs ==
  ASSUME NEW n \in Nat, NEW kind, kind # "sum", NEW p, NEW base,
         NEW g, IsFold(g, SUBSET (1..n), kind, p, base)
  PROVE  \E f : Rounds(f, n, kind, p, base, g[1..n])
<1> DEFINE f == [i \in 0..n |-> g[1..i]]
<1>1. f[0] = base
  <2>1. 1..0 = {} /\ {} \in SUBSET (1..n) /\ 0 \in 0..n
    OBVIOUS
  <2>2. g[{}] = base
    BY <2>1 DEF IsFold
  <2> QED BY <2>1, <2>2
<1>2. ASSUME NEW i \in 1..n PROVE f[i] = Do(kind, p, f[i - 1], i)
  <2>1. i \in Nat /\ i - 1 \in 0..n /\ i \in 0..n /\ 1..i # {} /\ 1..i \in SUBSET (1..n)
    OBVIOUS
  <2>2. Max(1..i) \in 1..i /\ \A y \in 1..i : y <= Max(1..i)
    BY <2>1, Greatest
  <2>3. Pick(kind, 1..i) = i
    BY <2>1, <2>2 DEF Pick
  <2>4. (1..i) \ {i} = 1..(i - 1)
    OBVIOUS
  <2>5. g[1..i] = Do(kind, p, g[(1..i) \ {Pick(kind, 1..i)}], Pick(kind, 1..i))
    BY <2>1 DEF IsFold
  <2> QED BY <2>1, <2>3, <2>4, <2>5
<1>3. g[1..n] = f[n]
  OBVIOUS
<1> HIDE DEF f
<1> QED BY <1>1, <1>2, <1>3 DEF Rounds

-----------------------------------------------------------------------------
(* Sums.                                                                   *)

IsSum(g, S, v) == g = [x \in SUBSET S |-> IF x = {} THEN 0 ELSE v[Chosen(x)] + g[x \ {Chosen(x)}]]

LEMMA SumIs ==
  ASSUME NEW v, IsFiniteSet(DOMAIN v)
  PROVE  \E g : IsSum(g, DOMAIN v, v) /\ SumFunction(v) = g[DOMAIN v]
<1> DEFINE S == DOMAIN v
           g == CHOOSE f : IsSum(f, S, v)
<1>1. \E f : IsSum(f, S, v)
  <2>1. PICK f : IsFold(f, SUBSET S, "sum", v, 0)
    BY FoldIs DEF Orderly
  <2>2. ASSUME NEW x \in SUBSET S
        PROVE  f[x] = IF x = {} THEN 0 ELSE v[Chosen(x)] + f[x \ {Chosen(x)}]
    BY <2>1 DEF IsFold, Do, Pick
  <2>3. f = [x \in SUBSET S |-> f[x]]
    BY <2>1 DEF IsFold
  <2>4. IsSum(f, S, v)
    BY <2>2, <2>3, Zenon DEF IsSum
  <2> QED BY <2>4
<1>2. IsSum(g, S, v)
  BY <1>1, Zenon
<1>3. SumFunction(v) = g[S]
  BY Zenon DEF SumFunction, SumFunctionOnSet, FoldFunctionOnSet, MapThenFoldSet, IsSum, Chosen
<1> QED BY <1>2, <1>3

LEMMA SumsAgree ==
  ASSUME NEW S, IsFiniteSet(S), NEW R \in SUBSET S, NEW g, NEW h, NEW v, NEW w,
         IsSum(g, S, v), IsSum(h, R, w), \A k \in R : v[k] = w[k]
  PROVE  \A x \in SUBSET R : g[x] = h[x]
<1> DEFINE T == {n \in Nat : \A x \in SUBSET R : Cardinality(x) <= n => g[x] = h[x]}
<1>1. IsFiniteSet(R)
  BY FS_Subset
<1>2. ASSUME NEW x \in SUBSET R
      PROVE  /\ g[x] = IF x = {} THEN 0 ELSE v[Chosen(x)] + g[x \ {Chosen(x)}]
             /\ h[x] = IF x = {} THEN 0 ELSE w[Chosen(x)] + h[x \ {Chosen(x)}]
  BY DEF IsSum
<1>3. 0 \in T
  <2>1. ASSUME NEW x \in SUBSET R, Cardinality(x) <= 0 PROVE x = {}
    <3>1. Cardinality(x) \in Nat /\ (Cardinality(x) = 0 <=> x = {})
      BY <1>1, FS_Subset, FS_CardinalityType, FS_EmptySet
    <3> QED BY <2>1, <3>1
  <2> QED BY <1>2, <2>1
<1>4. ASSUME NEW n \in Nat, n \in T PROVE n + 1 \in T
  <2> SUFFICES ASSUME NEW x \in SUBSET R, Cardinality(x) <= n + 1, x # {} PROVE g[x] = h[x]
    BY <1>2
  <2>1. Chosen(x) \in x /\ x \ {Chosen(x)} \in SUBSET R
        /\ Cardinality(x) \in Nat /\ Cardinality(x \ {Chosen(x)}) = Cardinality(x) - 1
    BY <1>1, PickIn DEF Orderly, Pick
  <2>2. g[x \ {Chosen(x)}] = h[x \ {Chosen(x)}]
    BY <1>4, <2>1
  <2>3. v[Chosen(x)] = w[Chosen(x)]
    BY <2>1
  <2> QED BY <1>2, <2>2, <2>3
<1>5. T \in SUBSET Nat
  OBVIOUS
<1> HIDE DEF T
<1>6. T = Nat
  BY <1>3, <1>4, <1>5, Counted
<1> TAKE x \in SUBSET R
<1>7. Cardinality(x) \in Nat
  BY <1>1, FS_Subset, FS_CardinalityType
<1>8. Cardinality(x) \in T
  BY <1>6, <1>7
<1> QED BY <1>7, <1>8 DEF T

SumOn(v, S) == SumFunction([k \in S |-> v[k]])

LEMMA SumStep ==
  ASSUME NEW S, IsFiniteSet(S), NEW v
  PROVE  /\ S = {} => SumOn(v, S) = 0
         /\ S # {} => /\ Chosen(S) \in S
                      /\ SumOn(v, S) = v[Chosen(S)] + SumOn(v, S \ {Chosen(S)})
<1> DEFINE f == [k \in S |-> v[k]]
           R == S \ {Chosen(S)}
           e == [k \in R |-> v[k]]
<1>1. DOMAIN f = S /\ DOMAIN e = R /\ R \in SUBSET S /\ IsFiniteSet(R)
  BY FS_Subset
<1>2. PICK g : IsSum(g, S, f) /\ SumFunction(f) = g[S]
  BY <1>1, SumIs
<1>3. PICK h : IsSum(h, R, e) /\ SumFunction(e) = h[R]
  <2> HIDE DEF e, f, R
  <2> QED BY <1>1, SumIs
<1>4. g[R] = h[R]
  <2>1. \A k \in R : f[k] = e[k]
    OBVIOUS
  <2> HIDE DEF e, f, R
  <2>2. IsSum(g, S, f) /\ IsSum(h, R, e) /\ IsFiniteSet(S) /\ R \in SUBSET S
    BY <1>1, <1>2, <1>3
  <2> HIDE <1>2, <1>3
  <2>3. \A x \in SUBSET R : g[x] = h[x]
    BY ONLY <2>1, <2>2, SumsAgree
  <2> QED BY <2>3
<1>5. g[S] = IF S = {} THEN 0 ELSE f[Chosen(S)] + g[R]
  BY <1>2 DEF IsSum
<1>6. S # {} => Chosen(S) \in S
  BY DEF Chosen
<1> QED BY <1>2, <1>3, <1>4, <1>5, <1>6 DEF SumOn

LEMMA SumTyped ==
  ASSUME NEW S, IsFiniteSet(S), NEW v
  PROVE  /\ (\A k \in S : v[k] \in Int) => SumOn(v, S) \in Int
         /\ (\A k \in S : v[k] \in Nat) => SumOn(v, S) \in Nat
<1> DEFINE T == {n \in Nat : \A x \in SUBSET S : Cardinality(x) <= n =>
                    /\ (\A k \in x : v[k] \in Int) => SumOn(v, x) \in Int
                    /\ (\A k \in x : v[k] \in Nat) => SumOn(v, x) \in Nat}
<1>1. 0 \in T
  <2>1. ASSUME NEW x \in SUBSET S, Cardinality(x) <= 0 PROVE SumOn(v, x) = 0
    <3>1. IsFiniteSet(x) /\ Cardinality(x) \in Nat /\ (Cardinality(x) = 0 <=> x = {})
      BY FS_Subset, FS_CardinalityType, FS_EmptySet
    <3> QED BY <2>1, <3>1, SumStep
  <2> QED BY <2>1
<1>2. ASSUME NEW n \in Nat, n \in T PROVE n + 1 \in T
  <2> SUFFICES ASSUME NEW x \in SUBSET S, Cardinality(x) <= n + 1
               PROVE  /\ (\A k \in x : v[k] \in Int) => SumOn(v, x) \in Int
                      /\ (\A k \in x : v[k] \in Nat) => SumOn(v, x) \in Nat
    OBVIOUS
  <2>1. IsFiniteSet(x)
    BY FS_Subset
  <2>2. CASE x = {}
    BY <2>1, <2>2, SumStep
  <2>3. CASE x # {}
    <3> PICK r : r = x \ {Chosen(x)}
      OBVIOUS
    <3>1. Chosen(x) \in x /\ r \in SUBSET S /\ r \subseteq x
          /\ Cardinality(x) \in Nat /\ Cardinality(r) = Cardinality(x) - 1
      BY <2>3, PickIn DEF Orderly, Pick
    <3>2. /\ (\A k \in r : v[k] \in Int) => SumOn(v, r) \in Int
          /\ (\A k \in r : v[k] \in Nat) => SumOn(v, r) \in Nat
      BY <1>2, <3>1
    <3>3. SumOn(v, x) = v[Chosen(x)] + SumOn(v, r)
      BY <2>1, <2>3, SumStep
    <3> QED BY <3>1, <3>2, <3>3
  <2> QED BY <2>2, <2>3
<1>3. T \in SUBSET Nat
  OBVIOUS
<1> HIDE DEF T
<1>4. T = Nat
  BY <1>1, <1>2, <1>3, Counted
<1>5. Cardinality(S) \in Nat /\ Cardinality(S) \in T
  BY <1>4, FS_CardinalityType
<1> QED BY <1>5 DEF T

LEMMA SumSplit ==
  ASSUME NEW S, IsFiniteSet(S), NEW v, \A k \in S : v[k] \in Int, NEW a \in S
  PROVE  SumOn(v, S) = v[a] + SumOn(v, S \ {a})
<1> DEFINE T == {n \in Nat : \A x \in SUBSET S : Cardinality(x) <= n =>
                    \A b \in x : SumOn(v, x) = v[b] + SumOn(v, x \ {b})}
<1>1. 0 \in T
  <2>1. ASSUME NEW x \in SUBSET S, Cardinality(x) <= 0 PROVE x = {}
    <3>1. IsFiniteSet(x) /\ Cardinality(x) \in Nat /\ (Cardinality(x) = 0 <=> x = {})
      BY FS_Subset, FS_CardinalityType, FS_EmptySet
    <3> QED BY <2>1, <3>1
  <2> QED BY <2>1
<1>2. ASSUME NEW n \in Nat, n \in T PROVE n + 1 \in T
  <2> SUFFICES ASSUME NEW x \in SUBSET S, Cardinality(x) <= n + 1, NEW b \in x
               PROVE  SumOn(v, x) = v[b] + SumOn(v, x \ {b})
    OBVIOUS
  <2> PICK c : c = Chosen(x)
    OBVIOUS
  <2>1. IsFiniteSet(x) /\ IsFiniteSet(x \ {b}) /\ IsFiniteSet(x \ {c}) /\ x # {}
    BY FS_Subset
  <2>2. c \in x /\ SumOn(v, x) = v[c] + SumOn(v, x \ {c})
    BY <2>1, SumStep
  <2>3. CASE b = c
    BY <2>2, <2>3
  <2>4. CASE b # c
    <3>1. Cardinality(x) \in Nat /\ Cardinality(x \ {b}) = Cardinality(x) - 1
          /\ Cardinality(x \ {c}) = Cardinality(x) - 1
      BY <2>1, <2>2, FS_CardinalityType, FS_RemoveElement
    <3>2. SumOn(v, x \ {c}) = v[b] + SumOn(v, (x \ {c}) \ {b})
      BY <1>2, <2>4, <3>1
    <3>3. SumOn(v, x \ {b}) = v[c] + SumOn(v, (x \ {b}) \ {c})
      BY <1>2, <2>2, <2>4, <3>1
    <3>4. (x \ {c}) \ {b} = (x \ {b}) \ {c} /\ IsFiniteSet((x \ {b}) \ {c})
      BY <2>1, FS_Subset
    <3>5. PICK s, t, u \in Int : s = SumOn(v, (x \ {b}) \ {c}) /\ t = v[b] /\ u = v[c]
      <4>1. \A k \in (x \ {b}) \ {c} : v[k] \in Int
        OBVIOUS
      <4> QED BY <2>2, <3>4, <4>1, SumTyped
    <3>6. SumOn(v, x) = u + (t + s) /\ SumOn(v, x \ {b}) = u + s
      BY <2>2, <3>2, <3>3, <3>4, <3>5
    <3> QED BY <3>5, <3>6
  <2> QED BY <2>3, <2>4
<1>3. T \in SUBSET Nat
  OBVIOUS
<1> HIDE DEF T
<1>4. T = Nat
  BY <1>1, <1>2, <1>3, Counted
<1>5. Cardinality(S) \in Nat /\ Cardinality(S) \in T
  BY <1>4, FS_CardinalityType
<1> QED BY <1>5 DEF T

-----------------------------------------------------------------------------
(* The lots of a position.                                                 *)

Lot == [shares : Nat \ {0}, basis : Nat, bought : Nat]

LEMMA SumUpTo ==
  ASSUME NEW n \in Nat, NEW v, \A i \in 1..n + 1 : v[i] \in Int
  PROVE  /\ SumOn(v, 1..n + 1) = SumOn(v, 1..n) + v[n + 1]
         /\ SumOn(v, 1..n) \in Int /\ v[n + 1] \in Int
<1>1. (1..n + 1) \ {n + 1} = 1..n /\ n + 1 \in 1..n + 1 /\ 1..n \subseteq 1..n + 1
  OBVIOUS
<1>2. IsFiniteSet(1..n + 1) /\ IsFiniteSet(1..n)
  BY FS_Interval
<1>3. SumOn(v, 1..n + 1) = v[n + 1] + SumOn(v, 1..n)
  BY <1>1, <1>2, SumSplit
<1>4. SumOn(v, 1..n) \in Int /\ v[n + 1] \in Int
  BY <1>1, <1>2, SumTyped
<1> QED BY <1>3, <1>4

LEMMA SumTo ==
  ASSUME NEW n \in Nat, NEW v
  PROVE  /\ (\A i \in 1..n : v[i] \in Int) => SumOn(v, 1..n) \in Int
         /\ (\A i \in 1..n : v[i] \in Nat) => SumOn(v, 1..n) \in Nat
<1>1. IsFiniteSet(1..n)
  BY FS_Interval
<1> QED BY <1>1, SumTyped

LEMMA SumNone == \A v : SumOn(v, 1..0) = 0
<1>1. 1..0 = {} /\ IsFiniteSet({})
  BY FS_EmptySet
<1> QED BY <1>1, SumStep

SharesOf(lots) == [i \in DOMAIN lots |-> lots[i].shares]
BasisOf(lots) == [i \in DOMAIN lots |-> lots[i].basis]

LEMMA LotsLen ==
  ASSUME NEW lots \in Seq(Lot)
  PROVE  Len(lots) \in Nat /\ DOMAIN lots = 1..Len(lots)
OBVIOUS

LEMMA LotsAt ==
  ASSUME NEW lots \in Seq(Lot), NEW i \in 1..Len(lots)
  PROVE  /\ lots[i] \in Lot
         /\ SharesOf(lots)[i] = lots[i].shares /\ SharesOf(lots)[i] \in Nat \ {0}
         /\ BasisOf(lots)[i] = lots[i].basis /\ BasisOf(lots)[i] \in Nat
<1>1. lots[i] \in Lot /\ i \in DOMAIN lots
  OBVIOUS
<1>2. lots[i].shares \in Nat \ {0} /\ lots[i].basis \in Nat
  BY <1>1 DEF Lot
<1> QED BY <1>1, <1>2 DEF SharesOf, BasisOf

LEMMA LotsSum ==
  ASSUME NEW lots \in Seq(Lot)
  PROVE  /\ Shares(lots) = SumOn(SharesOf(lots), 1..Len(lots))
         /\ Basis(lots) = SumOn(BasisOf(lots), 1..Len(lots))
<1>1. /\ SharesOf(lots) = [i \in 1..Len(lots) |-> SharesOf(lots)[i]]
      /\ BasisOf(lots) = [i \in 1..Len(lots) |-> BasisOf(lots)[i]]
  BY LotsLen DEF SharesOf, BasisOf
<1> QED BY <1>1 DEF Shares, Basis, SumOn, SharesOf, BasisOf

LEMMA LotsTyped ==
  ASSUME NEW lots \in Seq(Lot)
  PROVE  Shares(lots) \in Nat /\ Basis(lots) \in Nat /\ (lots # <<>> => Shares(lots) > 0)
<1> DEFINE n == Len(lots)
<1>0. n \in Nat /\ (lots # <<>> => n # 0)
  OBVIOUS
<1>1. /\ \A i \in 1..n : SharesOf(lots)[i] \in Nat \ {0} /\ BasisOf(lots)[i] \in Nat
      /\ Shares(lots) = SumOn(SharesOf(lots), 1..n) /\ Basis(lots) = SumOn(BasisOf(lots), 1..n)
  BY LotsAt, LotsSum
<1> HIDE DEF n
<1>2. Shares(lots) \in Nat /\ Basis(lots) \in Nat
  <2>1. /\ \A i \in 1..n : SharesOf(lots)[i] \in Nat
        /\ \A i \in 1..n : BasisOf(lots)[i] \in Nat
    BY <1>1
  <2> QED BY <1>0, <1>1, <2>1, SumTo
<1>3. ASSUME lots # <<>> PROVE Shares(lots) > 0
  <2>1. PICK m \in Nat : n = m + 1
    <3>1. n - 1 \in Nat /\ n = (n - 1) + 1
      BY <1>0, <1>3
    <3> QED BY <3>1
  <2>2. /\ \A i \in 1..m + 1 : SharesOf(lots)[i] \in Int
        /\ \A i \in 1..m : SharesOf(lots)[i] \in Nat
        /\ SharesOf(lots)[m + 1] \in Nat \ {0}
    BY <1>1, <2>1
  <2>3. SumOn(SharesOf(lots), 1..m + 1) = SumOn(SharesOf(lots), 1..m) + SharesOf(lots)[m + 1]
    BY <2>2, SumUpTo
  <2>4. SumOn(SharesOf(lots), 1..m) \in Nat
    BY <2>2, SumTo
  <2> QED BY <1>1, <2>1, <2>2, <2>3, <2>4
<1> QED BY <1>2, <1>3

LEMMA LotsAppend ==
  ASSUME NEW lots \in Seq(Lot), NEW lot \in Lot
  PROVE  /\ Append(lots, lot) \in Seq(Lot) /\ Append(lots, lot) # <<>>
         /\ Shares(Append(lots, lot)) = Shares(lots) + lot.shares
         /\ Basis(Append(lots, lot)) = Basis(lots) + lot.basis
<1> DEFINE n == Len(lots)
           more == Append(lots, lot)
<1>0. n \in Nat /\ more \in Seq(Lot) /\ Len(more) = n + 1 /\ more # <<>>
      /\ more[n + 1] = lot /\ \A i \in 1..n : more[i] = lots[i]
  OBVIOUS
<1>1. /\ \A i \in 1..n : /\ SharesOf(lots)[i] = lots[i].shares
                         /\ BasisOf(lots)[i] = lots[i].basis
      /\ Shares(lots) = SumOn(SharesOf(lots), 1..n) /\ Basis(lots) = SumOn(BasisOf(lots), 1..n)
  BY LotsAt, LotsSum
<1> HIDE DEF n, more
<1>2. /\ \A i \in 1..n + 1 : /\ SharesOf(more)[i] = more[i].shares /\ SharesOf(more)[i] \in Int
                             /\ BasisOf(more)[i] = more[i].basis /\ BasisOf(more)[i] \in Int
      /\ Shares(more) = SumOn(SharesOf(more), 1..n + 1) /\ Basis(more) = SumOn(BasisOf(more), 1..n + 1)
  <2>1. ASSUME NEW i \in 1..n + 1
        PROVE  /\ SharesOf(more)[i] = more[i].shares /\ SharesOf(more)[i] \in Nat
               /\ BasisOf(more)[i] = more[i].basis /\ BasisOf(more)[i] \in Nat
    BY <1>0, LotsAt
  <2>2. /\ Shares(more) = SumOn(SharesOf(more), 1..Len(more))
        /\ Basis(more) = SumOn(BasisOf(more), 1..Len(more))
    BY <1>0, LotsSum
  <2>3. Nat \subseteq Int
    OBVIOUS
  <2> QED BY <1>0, <2>1, <2>2, <2>3
<1>3. /\ Shares(more) = SumOn(SharesOf(more), 1..n) + SharesOf(more)[n + 1]
      /\ Basis(more) = SumOn(BasisOf(more), 1..n) + BasisOf(more)[n + 1]
  <2>1. PICK v, u : v = SharesOf(more) /\ u = BasisOf(more)
    OBVIOUS
  <2>2. SumOn(v, 1..n + 1) = SumOn(v, 1..n) + v[n + 1]
    BY <1>0, <1>2, <2>1, SumUpTo
  <2>3. SumOn(u, 1..n + 1) = SumOn(u, 1..n) + u[n + 1]
    BY <1>0, <1>2, <2>1, SumUpTo
  <2> QED BY <1>2, <2>1, <2>2, <2>3
<1>4. \A i \in 1..n : SharesOf(more)[i] = SharesOf(lots)[i] /\ BasisOf(more)[i] = BasisOf(lots)[i]
  BY <1>0, <1>1, <1>2
<1>5. /\ SumOn(SharesOf(more), 1..n) = SumOn(SharesOf(lots), 1..n)
      /\ SumOn(BasisOf(more), 1..n) = SumOn(BasisOf(lots), 1..n)
  BY <1>4 DEF SumOn
<1>6. SharesOf(more)[n + 1] = lot.shares /\ BasisOf(more)[n + 1] = lot.basis
  BY <1>0, <1>2
<1> QED BY <1>0, <1>1, <1>3, <1>5, <1>6 DEF more

LEMMA LotsJoin ==
  ASSUME NEW s \in Seq(Lot), NEW t \in Seq(Lot)
  PROVE  s \o t \in Seq(Lot) /\ Basis(s \o t) = Basis(s) + Basis(t)
<1> DEFINE m == Len(s)
           n == Len(t)
           u == s \o t
           a == BasisOf(s)
           b == BasisOf(t)
           c == BasisOf(u)
<1>0. m \in Nat /\ n \in Nat /\ u \in Seq(Lot) /\ Len(u) = m + n
      /\ (\A i \in 1..m : u[i] = s[i]) /\ \A i \in 1..n : m + i \in 1..m + n /\ u[m + i] = t[i]
  OBVIOUS
<1>1. /\ \A i \in 1..m : a[i] = s[i].basis /\ a[i] \in Int
      /\ \A i \in 1..n : b[i] = t[i].basis /\ b[i] \in Int
      /\ Basis(s) = SumOn(a, 1..m) /\ Basis(t) = SumOn(b, 1..n)
  BY LotsAt, LotsSum
<1> HIDE DEF u
<1>2. /\ \A i \in 1..m + n : c[i] = u[i].basis /\ c[i] \in Int
      /\ Basis(u) = SumOn(c, 1..m + n)
  BY <1>0, LotsAt, LotsSum
<1>3. (\A i \in 1..m : c[i] = a[i]) /\ \A i \in 1..n : c[m + i] = b[i]
  <2>1. \A i \in 1..m : i \in 1..m + n
    BY <1>0
  <2> QED BY <1>0, <1>1, <1>2, <2>1
<1> HIDE DEF m, n, a, b, c
<1> DEFINE T == {k \in Nat : k <= n => SumOn(c, 1..m + k) = SumOn(a, 1..m) + SumOn(b, 1..k)}
<1>5. SumOn(c, 1..m) = SumOn(a, 1..m) /\ SumOn(a, 1..m) \in Int
  <2>1. SumOn(c, 1..m) = SumOn(a, 1..m)
    BY <1>3 DEF SumOn
  <2>2. \A i \in 1..m : a[i] \in Int
    BY <1>1
  <2> QED BY <1>0, <2>1, <2>2, SumTo
<1>6. 0 \in T
  <2>1. m + 0 = m
    BY <1>0
  <2> QED BY <1>5, <2>1, SumNone
<1>7. ASSUME NEW k \in Nat, k \in T PROVE k + 1 \in T
  <2> SUFFICES ASSUME k + 1 <= n
               PROVE  SumOn(c, 1..m + (k + 1)) = SumOn(a, 1..m) + SumOn(b, 1..k + 1)
    OBVIOUS
  <2>1. SumOn(c, 1..m + k) = SumOn(a, 1..m) + SumOn(b, 1..k)
    BY <1>0, <1>7
  <2> HIDE DEF T
  <2>2. m + k \in Nat /\ (m + k) + 1 = m + (k + 1) /\ k + 1 \in 1..n
        /\ 1..(m + k) + 1 \subseteq 1..m + n /\ 1..k + 1 \subseteq 1..n
    BY <1>0
  <2>3. SumOn(c, 1..(m + k) + 1) = SumOn(c, 1..m + k) + c[(m + k) + 1]
    BY <1>2, <2>2, SumUpTo
  <2>4. /\ SumOn(b, 1..k + 1) = SumOn(b, 1..k) + b[k + 1]
        /\ SumOn(b, 1..k) \in Int /\ b[k + 1] \in Int
    BY <1>1, <2>2, SumUpTo
  <2>5. c[m + (k + 1)] = b[k + 1]
    BY <1>3, <2>2
  <2>6. PICK x, y, z \in Int : x = SumOn(a, 1..m) /\ y = SumOn(b, 1..k) /\ z = b[k + 1]
    BY <1>5, <2>4
  <2>7. SumOn(c, 1..m + (k + 1)) = (x + y) + z /\ SumOn(b, 1..k + 1) = y + z
    BY <2>1, <2>2, <2>3, <2>4, <2>5, <2>6
  <2> QED BY <2>6, <2>7
<1>8. T \in SUBSET Nat
  OBVIOUS
<1> HIDE DEF T
<1>9. T = Nat
  BY <1>6, <1>7, <1>8, Counted
<1>10. n \in T
  BY <1>0, <1>9
<1>11. SumOn(c, 1..m + n) = SumOn(a, 1..m) + SumOn(b, 1..n)
  BY <1>0, <1>10 DEF T
<1> QED BY <1>0, <1>1, <1>2, <1>11 DEF u

-----------------------------------------------------------------------------
(* A finite set in a strict total order.                                   *)

TotalOn(S, before) ==
  /\ \A x \in S : <<x, x>> \notin before
  /\ \A x, y, z \in S : <<x, y>> \in before /\ <<y, z>> \in before => <<x, z>> \in before
  /\ \A x, y \in S : x # y => <<x, y>> \in before \/ <<y, x>> \in before

Position(S, before, x) == Cardinality({y \in S : <<y, x>> \in before})

LEMMA PositionGrows ==
  ASSUME NEW S, IsFiniteSet(S), NEW before, TotalOn(S, before), NEW x \in S, NEW y \in S
  PROVE  /\ Position(S, before, x) \in 0..(Cardinality(S) - 1)
         /\ <<x, y>> \in before => Position(S, before, x) < Position(S, before, y)
<1> DEFINE X == {z \in S : <<z, x>> \in before}
           Y == {z \in S : <<z, y>> \in before}
<1>1. IsFiniteSet(S \ {x}) /\ Cardinality(S \ {x}) = Cardinality(S) - 1 /\ Cardinality(S) \in Nat
  BY FS_RemoveElement, FS_CardinalityType
<1>2. X \in SUBSET (S \ {x}) /\ Y \in SUBSET S
  BY DEF TotalOn
<1>3. Cardinality(X) \in Nat /\ Cardinality(X) <= Cardinality(S) - 1
  <2>1. PICK R : R = S \ {x} /\ IsFiniteSet(R) /\ Cardinality(R) = Cardinality(S) - 1
    BY <1>1
  <2>2. PICK Z : Z = X /\ Z \in SUBSET R
    BY <1>2, <2>1
  <2>3. IsFiniteSet(Z) /\ Cardinality(Z) <= Cardinality(R)
    BY <2>1, <2>2, FS_Subset
  <2> QED BY <2>1, <2>2, <2>3, FS_CardinalityType
<1>4. ASSUME <<x, y>> \in before PROVE Cardinality(X) < Cardinality(Y)
  <2>1. X \in SUBSET (Y \ {x}) /\ x \in Y
    BY <1>4 DEF TotalOn
  <2>2. IsFiniteSet(Y)
    BY <1>2, FS_Subset
  <2>3. IsFiniteSet(Y \ {x}) /\ Cardinality(Y \ {x}) = Cardinality(Y) - 1 /\ Cardinality(Y) \in Nat
    BY <2>1, <2>2, FS_RemoveElement, FS_CardinalityType
  <2>4. Cardinality(X) <= Cardinality(Y \ {x})
    BY <2>1, <2>3, FS_Subset
  <2> QED BY <1>3, <2>3, <2>4
<1> QED BY <1>1, <1>3, <1>4 DEF Position

LEMMA OrderedIs ==
  ASSUME NEW S, IsFiniteSet(S), NEW before, TotalOn(S, before)
  PROVE  \E n \in Nat : \E q \in [1..n -> S] :
           /\ q = Ordered(S, before) /\ n = Cardinality(S)
           /\ \A x \in S : \E i \in 1..n : q[i] = x
           /\ \A i, j \in 1..n : i < j => <<q[i], q[j]>> \in before
<1> DEFINE r == [x \in S |-> Position(S, before, x)]
<1> PICK n \in Nat : n = Cardinality(S)
  BY FS_CardinalityType
<1>1. r \in [S -> 0..(n - 1)]
  BY PositionGrows
<1>2. \A x, y \in S : <<x, y>> \in before => r[x] < r[y]
  BY PositionGrows
<1>3. \A x, y \in S : x # y => r[x] # r[y]
  <2> HIDE DEF r
  <2> SUFFICES ASSUME NEW x \in S, NEW y \in S, x # y PROVE r[x] # r[y]
    OBVIOUS
  <2>1. <<x, y>> \in before \/ <<y, x>> \in before
    BY DEF TotalOn
  <2>2. r[x] < r[y] \/ r[y] < r[x]
    BY <1>2, <2>1
  <2>3. r[x] \in Int /\ r[y] \in Int
    BY <1>1
  <2> QED BY <2>2, <2>3
<1>4. \A i \in 0..(n - 1) : \E x \in S : r[x] = i
  <2> HIDE DEF r
  <2>1. r \in Injection(S, 0..(n - 1))
    BY <1>1, <1>3 DEF Injection, IsInjective
  <2>2. IsFiniteSet(0..(n - 1)) /\ Cardinality(0..(n - 1)) = n
    <3> PICK z, m \in Int : z = 0 /\ m = n - 1
      OBVIOUS
    <3>1. IsFiniteSet(z..m) /\ Cardinality(z..m) = IF z > m THEN 0 ELSE m - z + 1
      BY FS_Interval
    <3> QED BY <3>1
  <2>3. r \in Surjection(S, 0..(n - 1))
    BY <2>1, <2>2, FS_Injection
  <2> QED BY <2>3 DEF Surjection
<1> DEFINE q == Ordered(S, before)
<1>5. q = [i \in 1..Cardinality(S) |-> CHOOSE x \in S : Position(S, before, x) = i - 1]
  BY DEF Ordered, Position
<1>10. \A x \in S : r[x] = Position(S, before, x)
  OBVIOUS
<1> HIDE DEF r, q
<1>6. \A i \in 1..n : q[i] \in S /\ r[q[i]] = i - 1
  <2> SUFFICES ASSUME NEW i \in 1..n PROVE q[i] \in S /\ r[q[i]] = i - 1
    OBVIOUS
  <2>1. i - 1 \in 0..(n - 1)
    OBVIOUS
  <2>2. \E x \in S : Position(S, before, x) = i - 1
    BY <1>4, <1>10, <2>1
  <2>3. q[i] = CHOOSE x \in S : Position(S, before, x) = i - 1
    BY <1>5
  <2>4. q[i] \in S /\ Position(S, before, q[i]) = i - 1
    BY <2>2, <2>3, Zenon
  <2> QED BY <1>10, <2>4
<1>7. q \in [1..n -> S]
  BY <1>5, <1>6
<1>8. ASSUME NEW x \in S PROVE \E i \in 1..n : q[i] = x
  <2>1. r[x] + 1 \in 1..n /\ r[x] \in Int /\ (r[x] + 1) - 1 = r[x]
    BY <1>1
  <2>2. r[q[r[x] + 1]] = r[x] /\ q[r[x] + 1] \in S
    BY <1>6, <2>1
  <2> QED BY <1>3, <2>1, <2>2
<1>9. ASSUME NEW i \in 1..n, NEW j \in 1..n, i < j PROVE <<q[i], q[j]>> \in before
  <2>1. q[i] \in S /\ q[j] \in S /\ r[q[i]] = i - 1 /\ r[q[j]] = j - 1
    BY <1>6
  <2>2. q[i] # q[j] /\ ~(r[q[j]] < r[q[i]])
    BY <1>9, <2>1
  <2> QED BY <1>2, <2>1, <2>2 DEF TotalOn
<1> QED BY <1>7, <1>8, <1>9 DEF q

(* A list without repetition of the elements of S.                         *)
Listing(q, S) ==
  /\ q \in Seq(S)
  /\ \A x \in S : \E i \in 1..Len(q) : q[i] = x
  /\ \A i, j \in 1..Len(q) : i # j => q[i] # q[j]

LEMMA OrderedLists ==
  ASSUME NEW S, IsFiniteSet(S), NEW before, TotalOn(S, before)
  PROVE  /\ Listing(Ordered(S, before), S)
         /\ \A i, j \in 1..Len(Ordered(S, before)) :
              i < j => <<Ordered(S, before)[i], Ordered(S, before)[j]>> \in before
<1> PICK n \in Nat : \E q \in [1..n -> S] :
           /\ q = Ordered(S, before)
           /\ \A x \in S : \E i \in 1..n : q[i] = x
           /\ \A i, j \in 1..n : i < j => <<q[i], q[j]>> \in before
  BY OrderedIs
<1> PICK q \in [1..n -> S] :
           /\ q = Ordered(S, before)
           /\ \A x \in S : \E i \in 1..n : q[i] = x
           /\ \A i, j \in 1..n : i < j => <<q[i], q[j]>> \in before
  OBVIOUS
<1>1. q \in Seq(S) /\ Len(q) = n
  OBVIOUS
<1>2. \A i, j \in 1..n : i # j => q[i] # q[j]
  <2> SUFFICES ASSUME NEW i \in 1..n, NEW j \in 1..n, i # j PROVE q[i] # q[j]
    OBVIOUS
  <2>1. i < j \/ j < i
    OBVIOUS
  <2>2. <<q[i], q[j]>> \in before \/ <<q[j], q[i]>> \in before
    BY <2>1
  <2> QED BY <2>2 DEF TotalOn
<1> QED BY <1>1, <1>2 DEF Listing

LEMMA DaysListed ==
  ASSUME NEW days \in SUBSET Nat, IsFiniteSet(days)
  PROVE  /\ Listing(InDayOrder(days), days)
         /\ \A i, j \in 1..Len(InDayOrder(days)) : i < j => InDayOrder(days)[i] < InDayOrder(days)[j]
<1> DEFINE R == {p \in days \X days : p[1] < p[2]}
<1>1. \A x, y \in days : <<x, y>> \in R <=> x < y
  OBVIOUS
<1> HIDE DEF R
<1>2. TotalOn(days, R)
  BY <1>1 DEF TotalOn
<1>3. /\ Listing(Ordered(days, R), days)
      /\ \A i, j \in 1..Len(Ordered(days, R)) : i < j => <<Ordered(days, R)[i], Ordered(days, R)[j]>> \in R
  BY <1>2, OrderedLists
<1>4. InDayOrder(days) = Ordered(days, R)
  BY DEF InDayOrder, R
<1> PICK q : q = Ordered(days, R)
  OBVIOUS
<1>5. \A i \in 1..Len(q) : q[i] \in days
  BY <1>3 DEF Listing
<1> QED BY <1>1, <1>3, <1>4, <1>5

LEMMA KeyRank ==
  ASSUME NEW k \in Key
  PROVE  Rank(k) \in Nat /\ Security[Rank(k)] = k
<1>1. \E i \in DOMAIN Security : Security[i] = k
  BY DEF Key, Range
<1>2. Rank(k) \in DOMAIN Security /\ Security[Rank(k)] = k
  BY <1>1, Zenon DEF Rank
<1>3. DOMAIN Security \subseteq Nat
  BY TradingBookAssumption
<1> QED BY <1>2, <1>3

LEMMA KeyFinite == IsFiniteSet(Key)
<1>1. Security \in Seq(Key)
  BY TradingBookAssumption
<1>2. PICK n \in Nat : DOMAIN Security = 1..n /\ n = Len(Security)
  BY <1>1
<1>3. IsFiniteSet(1..n)
  BY <1>2, FS_Interval
<1>4. Security \in Surjection(1..n, Key)
  <2>1. Security \in [1..n -> Key]
    BY <1>1, <1>2
  <2>2. \A k \in Key : \E i \in 1..n : Security[i] = k
    BY <1>2 DEF Key, Range
  <2> QED BY <2>1, <2>2 DEF Surjection
<1> QED BY <1>3, <1>4, FS_Surjection

LEMMA KeysListed ==
  ASSUME NEW keys \in SUBSET Key
  PROVE  Listing(InKeyOrder(keys), keys)
<1> DEFINE R == {p \in keys \X keys : Rank(p[1]) < Rank(p[2])}
<1>1. \A x, y \in keys : <<x, y>> \in R <=> Rank(x) < Rank(y)
  OBVIOUS
<1> HIDE DEF R
<1>2. \A x, y \in keys : Rank(x) \in Nat /\ (Rank(x) = Rank(y) => x = y)
  BY KeyRank
<1>3. TotalOn(keys, R)
  BY <1>1, <1>2 DEF TotalOn
<1>4. IsFiniteSet(keys)
  BY KeyFinite, FS_Subset
<1>5. Listing(Ordered(keys, R), keys)
  BY <1>3, <1>4, OrderedLists
<1> QED BY <1>5 DEF InKeyOrder, R

-----------------------------------------------------------------------------
(* What a window of a stored history loads.                                *)

LEMMA SessionsAre ==
  ASSUME NEW w, History(w), NEW a \in Int, NEW z \in Nat
  PROVE  /\ Sessions(w, a, z) \in SUBSET Nat /\ IsFiniteSet(Sessions(w, a, z))
         /\ Sessions(w, a, z) \subseteq w.open
         /\ \A d \in Sessions(w, a, z) : a < d /\ d <= z
<1>1. Sessions(w, a, z) \in SUBSET Nat /\ \A d \in Sessions(w, a, z) : d <= z
  BY DEF Sessions, History
<1>2. IsFiniteSet(Sessions(w, a, z))
  BY <1>1, FS_BoundedSetOfNaturals
<1> QED BY <1>1, <1>2 DEF Sessions

LEMMA DueAre ==
  ASSUME NEW w, History(w), NEW a, NEW z
  PROVE  /\ Due(w, a, z) \in SUBSET Conversion /\ IsFiniteSet(Due(w, a, z))
         /\ \A e, f \in Due(w, a, z) : e.from = f.from => e = f
<1>1. Due(w, a, z) \in SUBSET w.conversions
  BY DEF Due
<1> QED BY <1>1, FS_Subset DEF History

LEMMA ReachedIs ==
  ASSUME NEW w, History(w), NEW keys \in SUBSET Key, NEW a, NEW z
  PROVE  /\ Reached(w, keys, a, z) \in SUBSET Key
         /\ keys \subseteq Reached(w, keys, a, z)
         /\ \A e \in Due(w, a, z) :
              e.from \in Reached(w, keys, a, z) => e.to \in Reached(w, keys, a, z)
<1> PICK due : due = Due(w, a, z)
  OBVIOUS
<1> PICK R : R = Reached(w, keys, a, z)
  OBVIOUS
<1>1. R = {k \in Key : \A loaded \in SUBSET Key :
             keys \subseteq loaded /\ ClosedUnder(loaded, due) => k \in loaded}
  BY DEF Reached
<1>2. \A e \in due : e \in Conversion
  BY DueAre
<1>3. ASSUME NEW e \in due, e.from \in R PROVE e.to \in R
  <2>1. e.to \in Key
    BY <1>2 DEF Conversion
  <2>2. ASSUME NEW loaded \in SUBSET Key, keys \subseteq loaded, ClosedUnder(loaded, due)
        PROVE  e.to \in loaded
    <3>1. e.from \in loaded
      BY <1>1, <1>3, <2>2
    <3> QED BY <2>2, <3>1 DEF ClosedUnder
  <2> QED BY <1>1, <2>1, <2>2
<1> QED BY <1>1, <1>3

(* The conversions of a list lead from a loaded security to a loaded one.  *)
Within(loaded) == {e \in Conversion : e.from \in loaded /\ e.to \in loaded}

LEMMA ConversionsListed ==
  ASSUME NEW w, History(w), NEW keys \in SUBSET Key, NEW a, NEW z
  PROVE  ConversionOrder(w, keys, a, z) \in Seq(Within(Reached(w, keys, a, z)))
<1> PICK R : R = Reached(w, keys, a, z)
  OBVIOUS
<1> DEFINE due == {e \in Due(w, a, z) : e.from \in R}
           B == {p \in due \X due : \/ p[1].day < p[2].day
                                    \/ p[1].day = p[2].day /\ Rank(p[1].from) < Rank(p[2].from)}
<1>1. due \in SUBSET Due(w, a, z)
  OBVIOUS
<1>2. due \in SUBSET Within(R)
  BY DueAre, ReachedIs DEF Within
<1>3. \A e, f \in due : <<e, f>> \in B <=> \/ e.day < f.day
                                           \/ e.day = f.day /\ Rank(e.from) < Rank(f.from)
  OBVIOUS
<1>4. ConversionOrder(w, keys, a, z) = Ordered(due, B)
  BY DEF ConversionOrder
<1> HIDE DEF due, B
<1>5. IsFiniteSet(due) /\ \A e, f \in due : e.from = f.from => e = f
  BY <1>1, DueAre, FS_Subset
<1>6. \A e \in due : e.day \in Nat /\ e.from \in Key /\ Rank(e.from) \in Nat
                     /\ Security[Rank(e.from)] = e.from
  BY <1>2, KeyRank DEF Within, Conversion
<1>7. TotalOn(due, B)
  <2>1. \A e \in due : <<e, e>> \notin B
    BY <1>3, <1>6
  <2>2. \A e, f, g \in due : <<e, f>> \in B /\ <<f, g>> \in B => <<e, g>> \in B
    BY <1>3, <1>6
  <2>3. ASSUME NEW e \in due, NEW f \in due, e # f PROVE <<e, f>> \in B \/ <<f, e>> \in B
    <3>1. e.from # f.from
      BY <1>5, <2>3
    <3>2. Rank(e.from) # Rank(f.from)
      BY <1>6, <3>1
    <3> QED BY <1>3, <1>6, <3>2
  <2> QED BY <2>1, <2>2, <2>3 DEF TotalOn
<1>8. Listing(Ordered(due, B), due)
  BY <1>5, <1>7, OrderedLists
<1> QED BY <1>2, <1>4, <1>8 DEF Listing

-----------------------------------------------------------------------------
(* The loops of the book, round after round.                               *)
ConversionRun(f, n, b, day, events, rows) ==
  /\ f[0] = b
  /\ \A i \in 1..n :
       f[i] = IF f[i - 1].refused THEN f[i - 1] ELSE Convert(f[i - 1], events[i], day, rows)
  /\ ApplyConversions(b, day, events, rows) = f[n]

LEMMA ConversionRounds ==
  ASSUME NEW b, NEW day, NEW events, NEW rows,
         NEW n \in Nat, DOMAIN events = 1..n
  PROVE  \E f : ConversionRun(f, n, b, day, events, rows)
<1> PICK kind : kind = "convert"
  OBVIOUS
<1>0. kind # "sum"
  OBVIOUS
<1> DEFINE base == b
           p == [events |-> events, day |-> day, rows |-> rows]
           Is(h) == h = [s \in SUBSET (DOMAIN events) |->
                          IF s = {} THEN b
                          ELSE IF h[s \ {Max(s)}].refused THEN h[s \ {Max(s)}] ELSE Convert(h[s \ {Max(s)}], events[Max(s)], day, rows)]
           g == CHOOSE h : Is(h)
<1>1. \E h : Is(h)
  <2> HIDE DEF p
  <2>1. PICK h : IsFold(h, SUBSET (1..n), kind, p, base)
    <3>1. IsFiniteSet(1..n)
      BY FS_Interval
    <3>2. Orderly(1..n, kind)
      BY <3>1 DEF Orderly
    <3> HIDE DEF base
    <3> QED BY ONLY <3>2, FoldIs
  <2>2. ASSUME NEW s \in SUBSET (1..n)
        PROVE  h[s] = IF s = {} THEN b
                      ELSE IF h[s \ {Max(s)}].refused THEN h[s \ {Max(s)}] ELSE Convert(h[s \ {Max(s)}], events[Max(s)], day, rows)
    <3>1. h[s] = IF s = {} THEN base ELSE Do(kind, p, h[s \ {Max(s)}], Max(s))
      BY <2>1 DEF IsFold, Pick
    <3>2. Do(kind, p, h[s \ {Max(s)}], Max(s)) = IF h[s \ {Max(s)}].refused THEN h[s \ {Max(s)}] ELSE Convert(h[s \ {Max(s)}], events[Max(s)], day, rows)
      BY DEF Do, p
    <3> QED BY <3>1, <3>2
  <2>3. h = [s \in SUBSET (1..n) |-> h[s]]
    BY <2>1 DEF IsFold
  <2>4. Is(h)
    BY <2>2, <2>3, Zenon
  <2> QED BY <2>4
<1>2. Is(g)
  BY <1>1, Zenon
<1>3. ApplyConversions(b, day, events, rows) = g[DOMAIN events]
  BY Zenon DEF ApplyConversions, FoldLeft, MapThenFoldSet
<1> HIDE DEF g
<1>4. IsFold(g, SUBSET (1..n), kind, p, base)
  <2>1. ASSUME NEW s \in SUBSET (1..n)
        PROVE  g[s] = IF s = {} THEN base ELSE Do(kind, p, g[s \ {Pick(kind, s)}], Pick(kind, s))
    <3>1. g[s] = IF s = {} THEN b
                 ELSE IF g[s \ {Max(s)}].refused THEN g[s \ {Max(s)}] ELSE Convert(g[s \ {Max(s)}], events[Max(s)], day, rows)
      BY <1>2
    <3>2. Do(kind, p, g[s \ {Max(s)}], Max(s)) = IF g[s \ {Max(s)}].refused THEN g[s \ {Max(s)}] ELSE Convert(g[s \ {Max(s)}], events[Max(s)], day, rows)
      BY DEF Do
    <3>3. Pick(kind, s) = Max(s)
      BY DEF Pick
    <3> HIDE DEF p
    <3> QED BY <3>1, <3>2, <3>3
  <2>2. g = [s \in SUBSET (1..n) |-> g[s]]
    BY <1>2
  <2> HIDE DEF p, base, Is
  <2> QED BY <2>1, <2>2, Zenon DEF IsFold
<1> HIDE DEF p, base
<1>5. PICK f : Rounds(f, n, kind, p, base, g[1..n])
  <2> HIDE DEF g, Is
  <2> QED BY ONLY <1>0, <1>4, n \in Nat, RoundsIs, Zenon
<1>6. ASSUME NEW i \in 1..n
      PROVE  f[i] = IF f[i - 1].refused THEN f[i - 1] ELSE Convert(f[i - 1], events[i], day, rows)
  <2>1. f[i] = Do(kind, p, f[i - 1], i)
    BY <1>5 DEF Rounds
  <2>2. Do(kind, p, f[i - 1], i) = IF f[i - 1].refused THEN f[i - 1] ELSE Convert(f[i - 1], events[i], day, rows)
    BY DEF Do, p
  <2> QED BY <2>1, <2>2
<1>7. f[0] = b
  BY <1>5 DEF Rounds, base
<1>8. g[1..n] = f[n]
  BY <1>5 DEF Rounds
<1>9. ConversionRun(f, n, b, day, events, rows)
  BY <1>3, <1>6, <1>7, <1>8 DEF ConversionRun
<1> QED BY <1>9

LotRun(f, n, b, key, shares, price, net, day) ==
  /\ f[0] = [left |-> shares, total |-> shares, net |-> net,
            done |-> 0, paid |-> 0, short |-> 0, long |-> 0, kept |-> <<>>]
  /\ \A i \in 1..n :
       f[i] = SellLot(f[i - 1], b.lots[key][i], price, day, b.terms)
  /\ Consumed(b, key, shares, price, net, day) = f[n]

LEMMA LotRounds ==
  ASSUME NEW b, NEW key, NEW shares, NEW price, NEW net, NEW day,
         NEW n \in Nat, DOMAIN b.lots[key] = 1..n
  PROVE  \E f : LotRun(f, n, b, key, shares, price, net, day)
<1> PICK kind : kind = "lot"
  OBVIOUS
<1>0. kind # "sum"
  OBVIOUS
<1> DEFINE base == [left |-> shares, total |-> shares, net |-> net,
            done |-> 0, paid |-> 0, short |-> 0, long |-> 0, kept |-> <<>>]
           p == [lots |-> b.lots[key], price |-> price, day |-> day, terms |-> b.terms]
           Is(h) == h = [s \in SUBSET (DOMAIN b.lots[key]) |->
                          IF s = {} THEN [left |-> shares, total |-> shares, net |-> net,
            done |-> 0, paid |-> 0, short |-> 0, long |-> 0, kept |-> <<>>]
                          ELSE SellLot(h[s \ {Max(s)}], b.lots[key][Max(s)], price, day, b.terms)]
           g == CHOOSE h : Is(h)
<1>1. \E h : Is(h)
  <2> HIDE DEF p
  <2>1. PICK h : IsFold(h, SUBSET (1..n), kind, p, base)
    <3>1. IsFiniteSet(1..n)
      BY FS_Interval
    <3>2. Orderly(1..n, kind)
      BY <3>1 DEF Orderly
    <3> HIDE DEF base
    <3> QED BY ONLY <3>2, FoldIs
  <2>2. ASSUME NEW s \in SUBSET (1..n)
        PROVE  h[s] = IF s = {} THEN [left |-> shares, total |-> shares, net |-> net,
            done |-> 0, paid |-> 0, short |-> 0, long |-> 0, kept |-> <<>>]
                      ELSE SellLot(h[s \ {Max(s)}], b.lots[key][Max(s)], price, day, b.terms)
    <3>1. h[s] = IF s = {} THEN base ELSE Do(kind, p, h[s \ {Max(s)}], Max(s))
      BY <2>1 DEF IsFold, Pick
    <3>2. Do(kind, p, h[s \ {Max(s)}], Max(s)) = SellLot(h[s \ {Max(s)}], b.lots[key][Max(s)], price, day, b.terms)
      BY DEF Do, p
    <3> QED BY <3>1, <3>2
  <2>3. h = [s \in SUBSET (1..n) |-> h[s]]
    BY <2>1 DEF IsFold
  <2>4. Is(h)
    BY <2>2, <2>3, Zenon
  <2> QED BY <2>4
<1>2. Is(g)
  BY <1>1, Zenon
<1>3. Consumed(b, key, shares, price, net, day) = g[DOMAIN b.lots[key]]
  BY Zenon DEF Consumed, FoldLeft, MapThenFoldSet
<1> HIDE DEF g
<1>4. IsFold(g, SUBSET (1..n), kind, p, base)
  <2>1. ASSUME NEW s \in SUBSET (1..n)
        PROVE  g[s] = IF s = {} THEN base ELSE Do(kind, p, g[s \ {Pick(kind, s)}], Pick(kind, s))
    <3>1. g[s] = IF s = {} THEN [left |-> shares, total |-> shares, net |-> net,
            done |-> 0, paid |-> 0, short |-> 0, long |-> 0, kept |-> <<>>]
                 ELSE SellLot(g[s \ {Max(s)}], b.lots[key][Max(s)], price, day, b.terms)
      BY <1>2
    <3>2. Do(kind, p, g[s \ {Max(s)}], Max(s)) = SellLot(g[s \ {Max(s)}], b.lots[key][Max(s)], price, day, b.terms)
      BY DEF Do
    <3>3. Pick(kind, s) = Max(s)
      BY DEF Pick
    <3> HIDE DEF p
    <3> QED BY <3>1, <3>2, <3>3
  <2>2. g = [s \in SUBSET (1..n) |-> g[s]]
    BY <1>2
  <2> HIDE DEF p, base, Is
  <2> QED BY <2>1, <2>2, Zenon DEF IsFold
<1> HIDE DEF p, base
<1>5. PICK f : Rounds(f, n, kind, p, base, g[1..n])
  <2> HIDE DEF g, Is
  <2> QED BY ONLY <1>0, <1>4, n \in Nat, RoundsIs, Zenon
<1>6. ASSUME NEW i \in 1..n
      PROVE  f[i] = SellLot(f[i - 1], b.lots[key][i], price, day, b.terms)
  <2>1. f[i] = Do(kind, p, f[i - 1], i)
    BY <1>5 DEF Rounds
  <2>2. Do(kind, p, f[i - 1], i) = SellLot(f[i - 1], b.lots[key][i], price, day, b.terms)
    BY DEF Do, p
  <2> QED BY <2>1, <2>2
<1>7. f[0] = [left |-> shares, total |-> shares, net |-> net,
            done |-> 0, paid |-> 0, short |-> 0, long |-> 0, kept |-> <<>>]
  BY <1>5 DEF Rounds, base
<1>8. g[1..n] = f[n]
  BY <1>5 DEF Rounds
<1>9. LotRun(f, n, b, key, shares, price, net, day)
  BY <1>3, <1>6, <1>7, <1>8 DEF LotRun
<1> QED BY <1>9

SaleRun(f, n, b, over, rows, day, keys) ==
  /\ f[0] = b
  /\ \A i \in 1..n :
       f[i] = IF f[i - 1].refused THEN f[i - 1] ELSE Sell(f[i - 1], keys[i], over[keys[i]], rows[keys[i]].close, day)
  /\ SellAll(b, over, rows, day) = f[n]

LEMMA SaleRounds ==
  ASSUME NEW b, NEW over, NEW rows, NEW day, NEW keys, keys = InKeyOrder({k \in DOMAIN over : over[k] >= rows[k].close}),
         NEW n \in Nat, DOMAIN keys = 1..n
  PROVE  \E f : SaleRun(f, n, b, over, rows, day, keys)
<1> PICK kind : kind = "sell"
  OBVIOUS
<1>0. kind # "sum"
  OBVIOUS
<1> DEFINE base == b
           p == [keys |-> keys, over |-> over, rows |-> rows, day |-> day]
           Is(h) == h = [s \in SUBSET (DOMAIN keys) |->
                          IF s = {} THEN b
                          ELSE IF h[s \ {Max(s)}].refused THEN h[s \ {Max(s)}] ELSE Sell(h[s \ {Max(s)}], keys[Max(s)], over[keys[Max(s)]], rows[keys[Max(s)]].close, day)]
           g == CHOOSE h : Is(h)
<1>1. \E h : Is(h)
  <2> HIDE DEF p
  <2>1. PICK h : IsFold(h, SUBSET (1..n), kind, p, base)
    <3>1. IsFiniteSet(1..n)
      BY FS_Interval
    <3>2. Orderly(1..n, kind)
      BY <3>1 DEF Orderly
    <3> HIDE DEF base
    <3> QED BY ONLY <3>2, FoldIs
  <2>2. ASSUME NEW s \in SUBSET (1..n)
        PROVE  h[s] = IF s = {} THEN b
                      ELSE IF h[s \ {Max(s)}].refused THEN h[s \ {Max(s)}] ELSE Sell(h[s \ {Max(s)}], keys[Max(s)], over[keys[Max(s)]], rows[keys[Max(s)]].close, day)
    <3>1. h[s] = IF s = {} THEN base ELSE Do(kind, p, h[s \ {Max(s)}], Max(s))
      BY <2>1 DEF IsFold, Pick
    <3>2. Do(kind, p, h[s \ {Max(s)}], Max(s)) = IF h[s \ {Max(s)}].refused THEN h[s \ {Max(s)}] ELSE Sell(h[s \ {Max(s)}], keys[Max(s)], over[keys[Max(s)]], rows[keys[Max(s)]].close, day)
      BY DEF Do, p
    <3> QED BY <3>1, <3>2
  <2>3. h = [s \in SUBSET (1..n) |-> h[s]]
    BY <2>1 DEF IsFold
  <2>4. Is(h)
    BY <2>2, <2>3, Zenon
  <2> QED BY <2>4
<1>2. Is(g)
  BY <1>1, Zenon
<1>3. SellAll(b, over, rows, day) = g[DOMAIN keys]
  BY Zenon DEF SellAll, Trades, FoldLeft, MapThenFoldSet
<1> HIDE DEF g
<1>4. IsFold(g, SUBSET (1..n), kind, p, base)
  <2>1. ASSUME NEW s \in SUBSET (1..n)
        PROVE  g[s] = IF s = {} THEN base ELSE Do(kind, p, g[s \ {Pick(kind, s)}], Pick(kind, s))
    <3>1. g[s] = IF s = {} THEN b
                 ELSE IF g[s \ {Max(s)}].refused THEN g[s \ {Max(s)}] ELSE Sell(g[s \ {Max(s)}], keys[Max(s)], over[keys[Max(s)]], rows[keys[Max(s)]].close, day)
      BY <1>2
    <3>2. Do(kind, p, g[s \ {Max(s)}], Max(s)) = IF g[s \ {Max(s)}].refused THEN g[s \ {Max(s)}] ELSE Sell(g[s \ {Max(s)}], keys[Max(s)], over[keys[Max(s)]], rows[keys[Max(s)]].close, day)
      BY DEF Do
    <3>3. Pick(kind, s) = Max(s)
      BY DEF Pick
    <3> HIDE DEF p
    <3> QED BY <3>1, <3>2, <3>3
  <2>2. g = [s \in SUBSET (1..n) |-> g[s]]
    BY <1>2
  <2> HIDE DEF p, base, Is
  <2> QED BY <2>1, <2>2, Zenon DEF IsFold
<1> HIDE DEF p, base
<1>5. PICK f : Rounds(f, n, kind, p, base, g[1..n])
  <2> HIDE DEF g, Is
  <2> QED BY ONLY <1>0, <1>4, n \in Nat, RoundsIs, Zenon
<1>6. ASSUME NEW i \in 1..n
      PROVE  f[i] = IF f[i - 1].refused THEN f[i - 1] ELSE Sell(f[i - 1], keys[i], over[keys[i]], rows[keys[i]].close, day)
  <2>1. f[i] = Do(kind, p, f[i - 1], i)
    BY <1>5 DEF Rounds
  <2>2. Do(kind, p, f[i - 1], i) = IF f[i - 1].refused THEN f[i - 1] ELSE Sell(f[i - 1], keys[i], over[keys[i]], rows[keys[i]].close, day)
    BY DEF Do, p
  <2> QED BY <2>1, <2>2
<1>7. f[0] = b
  BY <1>5 DEF Rounds, base
<1>8. g[1..n] = f[n]
  BY <1>5 DEF Rounds
<1>9. SaleRun(f, n, b, over, rows, day, keys)
  BY <1>3, <1>6, <1>7, <1>8 DEF SaleRun
<1> QED BY <1>9

PurchaseRun(f, n, b, amounts, rows, day, keys) ==
  /\ f[0] = b
  /\ \A i \in 1..n :
       f[i] = IF f[i - 1].refused THEN f[i - 1] ELSE Buy(f[i - 1], keys[i], amounts[keys[i]], rows[keys[i]].close, day)
  /\ BuyScaled(b, amounts, rows, day) = Spent(f[n])

LEMMA PurchaseRounds ==
  ASSUME NEW b, NEW amounts, NEW rows, NEW day, NEW keys, keys = InKeyOrder(DOMAIN amounts),
         NEW n \in Nat, DOMAIN keys = 1..n
  PROVE  \E f : PurchaseRun(f, n, b, amounts, rows, day, keys)
<1> PICK kind : kind = "buy"
  OBVIOUS
<1>0. kind # "sum"
  OBVIOUS
<1> DEFINE base == b
           p == [keys |-> keys, amounts |-> amounts, rows |-> rows, day |-> day]
           Is(h) == h = [s \in SUBSET (DOMAIN keys) |->
                          IF s = {} THEN b
                          ELSE IF h[s \ {Max(s)}].refused THEN h[s \ {Max(s)}] ELSE Buy(h[s \ {Max(s)}], keys[Max(s)], amounts[keys[Max(s)]], rows[keys[Max(s)]].close, day)]
           g == CHOOSE h : Is(h)
<1>1. \E h : Is(h)
  <2> HIDE DEF p
  <2>1. PICK h : IsFold(h, SUBSET (1..n), kind, p, base)
    <3>1. IsFiniteSet(1..n)
      BY FS_Interval
    <3>2. Orderly(1..n, kind)
      BY <3>1 DEF Orderly
    <3> HIDE DEF base
    <3> QED BY ONLY <3>2, FoldIs
  <2>2. ASSUME NEW s \in SUBSET (1..n)
        PROVE  h[s] = IF s = {} THEN b
                      ELSE IF h[s \ {Max(s)}].refused THEN h[s \ {Max(s)}] ELSE Buy(h[s \ {Max(s)}], keys[Max(s)], amounts[keys[Max(s)]], rows[keys[Max(s)]].close, day)
    <3>1. h[s] = IF s = {} THEN base ELSE Do(kind, p, h[s \ {Max(s)}], Max(s))
      BY <2>1 DEF IsFold, Pick
    <3>2. Do(kind, p, h[s \ {Max(s)}], Max(s)) = IF h[s \ {Max(s)}].refused THEN h[s \ {Max(s)}] ELSE Buy(h[s \ {Max(s)}], keys[Max(s)], amounts[keys[Max(s)]], rows[keys[Max(s)]].close, day)
      BY DEF Do, p
    <3> QED BY <3>1, <3>2
  <2>3. h = [s \in SUBSET (1..n) |-> h[s]]
    BY <2>1 DEF IsFold
  <2>4. Is(h)
    BY <2>2, <2>3, Zenon
  <2> QED BY <2>4
<1>2. Is(g)
  BY <1>1, Zenon
<1>3. BuyScaled(b, amounts, rows, day) = Spent(g[DOMAIN keys])
  BY Zenon DEF BuyScaled, Trades, FoldLeft, MapThenFoldSet
<1> HIDE DEF g
<1>4. IsFold(g, SUBSET (1..n), kind, p, base)
  <2>1. ASSUME NEW s \in SUBSET (1..n)
        PROVE  g[s] = IF s = {} THEN base ELSE Do(kind, p, g[s \ {Pick(kind, s)}], Pick(kind, s))
    <3>1. g[s] = IF s = {} THEN b
                 ELSE IF g[s \ {Max(s)}].refused THEN g[s \ {Max(s)}] ELSE Buy(g[s \ {Max(s)}], keys[Max(s)], amounts[keys[Max(s)]], rows[keys[Max(s)]].close, day)
      BY <1>2
    <3>2. Do(kind, p, g[s \ {Max(s)}], Max(s)) = IF g[s \ {Max(s)}].refused THEN g[s \ {Max(s)}] ELSE Buy(g[s \ {Max(s)}], keys[Max(s)], amounts[keys[Max(s)]], rows[keys[Max(s)]].close, day)
      BY DEF Do
    <3>3. Pick(kind, s) = Max(s)
      BY DEF Pick
    <3> HIDE DEF p
    <3> QED BY <3>1, <3>2, <3>3
  <2>2. g = [s \in SUBSET (1..n) |-> g[s]]
    BY <1>2
  <2> HIDE DEF p, base, Is
  <2> QED BY <2>1, <2>2, Zenon DEF IsFold
<1> HIDE DEF p, base
<1>5. PICK f : Rounds(f, n, kind, p, base, g[1..n])
  <2> HIDE DEF g, Is
  <2> QED BY ONLY <1>0, <1>4, n \in Nat, RoundsIs, Zenon
<1>6. ASSUME NEW i \in 1..n
      PROVE  f[i] = IF f[i - 1].refused THEN f[i - 1] ELSE Buy(f[i - 1], keys[i], amounts[keys[i]], rows[keys[i]].close, day)
  <2>1. f[i] = Do(kind, p, f[i - 1], i)
    BY <1>5 DEF Rounds
  <2>2. Do(kind, p, f[i - 1], i) = IF f[i - 1].refused THEN f[i - 1] ELSE Buy(f[i - 1], keys[i], amounts[keys[i]], rows[keys[i]].close, day)
    BY DEF Do, p
  <2> QED BY <2>1, <2>2
<1>7. f[0] = b
  BY <1>5 DEF Rounds, base
<1>8. g[1..n] = f[n]
  BY <1>5 DEF Rounds
<1>9. PurchaseRun(f, n, b, amounts, rows, day, keys)
  BY <1>3, <1>6, <1>7, <1>8 DEF PurchaseRun
<1> QED BY <1>9

DayRun(f, n, b, days, w, loaded, events, targets, entry, order) ==
  /\ f[0] = b
  /\ \A i \in 1..n :
       f[i] = IF f[i - 1].refused THEN f[i - 1] ELSE Closing(f[i - 1], order[i], RowsOn(w, loaded, order[i]), events, targets, entry)
  /\ Carried(b, days, w, loaded, events, targets, entry) = f[n]

LEMMA DayRounds ==
  ASSUME NEW b, NEW days, NEW w, NEW loaded, NEW events, NEW targets, NEW entry, NEW order, order = InDayOrder(days),
         NEW n \in Nat, DOMAIN order = 1..n
  PROVE  \E f : DayRun(f, n, b, days, w, loaded, events, targets, entry, order)
<1> PICK kind : kind = "day"
  OBVIOUS
<1>0. kind # "sum"
  OBVIOUS
<1> DEFINE base == b
           p == [days |-> order, world |-> w, loaded |-> loaded, events |-> events, targets |-> targets, entry |-> entry]
           Is(h) == h = [s \in SUBSET (DOMAIN order) |->
                          IF s = {} THEN b
                          ELSE IF h[s \ {Max(s)}].refused THEN h[s \ {Max(s)}] ELSE Closing(h[s \ {Max(s)}], order[Max(s)], RowsOn(w, loaded, order[Max(s)]), events, targets, entry)]
           g == CHOOSE h : Is(h)
<1>1. \E h : Is(h)
  <2> HIDE DEF p
  <2>1. PICK h : IsFold(h, SUBSET (1..n), kind, p, base)
    <3>1. IsFiniteSet(1..n)
      BY FS_Interval
    <3>2. Orderly(1..n, kind)
      BY <3>1 DEF Orderly
    <3> HIDE DEF base
    <3> QED BY ONLY <3>2, FoldIs
  <2>2. ASSUME NEW s \in SUBSET (1..n)
        PROVE  h[s] = IF s = {} THEN b
                      ELSE IF h[s \ {Max(s)}].refused THEN h[s \ {Max(s)}] ELSE Closing(h[s \ {Max(s)}], order[Max(s)], RowsOn(w, loaded, order[Max(s)]), events, targets, entry)
    <3>1. h[s] = IF s = {} THEN base ELSE Do(kind, p, h[s \ {Max(s)}], Max(s))
      BY <2>1 DEF IsFold, Pick
    <3>2. Do(kind, p, h[s \ {Max(s)}], Max(s)) = IF h[s \ {Max(s)}].refused THEN h[s \ {Max(s)}] ELSE Closing(h[s \ {Max(s)}], order[Max(s)], RowsOn(w, loaded, order[Max(s)]), events, targets, entry)
      BY DEF Do, p
    <3> QED BY <3>1, <3>2
  <2>3. h = [s \in SUBSET (1..n) |-> h[s]]
    BY <2>1 DEF IsFold
  <2>4. Is(h)
    BY <2>2, <2>3, Zenon
  <2> QED BY <2>4
<1>2. Is(g)
  BY <1>1, Zenon
<1>3. Carried(b, days, w, loaded, events, targets, entry) = g[DOMAIN order]
  BY Zenon DEF Carried, FoldLeft, MapThenFoldSet
<1> HIDE DEF g
<1>4. IsFold(g, SUBSET (1..n), kind, p, base)
  <2>1. ASSUME NEW s \in SUBSET (1..n)
        PROVE  g[s] = IF s = {} THEN base ELSE Do(kind, p, g[s \ {Pick(kind, s)}], Pick(kind, s))
    <3>1. g[s] = IF s = {} THEN b
                 ELSE IF g[s \ {Max(s)}].refused THEN g[s \ {Max(s)}] ELSE Closing(g[s \ {Max(s)}], order[Max(s)], RowsOn(w, loaded, order[Max(s)]), events, targets, entry)
      BY <1>2
    <3>2. Do(kind, p, g[s \ {Max(s)}], Max(s)) = IF g[s \ {Max(s)}].refused THEN g[s \ {Max(s)}] ELSE Closing(g[s \ {Max(s)}], order[Max(s)], RowsOn(w, loaded, order[Max(s)]), events, targets, entry)
      BY DEF Do
    <3>3. Pick(kind, s) = Max(s)
      BY DEF Pick
    <3> HIDE DEF p
    <3> QED BY <3>1, <3>2, <3>3
  <2>2. g = [s \in SUBSET (1..n) |-> g[s]]
    BY <1>2
  <2> HIDE DEF p, base, Is
  <2> QED BY <2>1, <2>2, Zenon DEF IsFold
<1> HIDE DEF p, base
<1>5. PICK f : Rounds(f, n, kind, p, base, g[1..n])
  <2> HIDE DEF g, Is
  <2> QED BY ONLY <1>0, <1>4, n \in Nat, RoundsIs, Zenon
<1>6. ASSUME NEW i \in 1..n
      PROVE  f[i] = IF f[i - 1].refused THEN f[i - 1] ELSE Closing(f[i - 1], order[i], RowsOn(w, loaded, order[i]), events, targets, entry)
  <2>1. f[i] = Do(kind, p, f[i - 1], i)
    BY <1>5 DEF Rounds
  <2>2. Do(kind, p, f[i - 1], i) = IF f[i - 1].refused THEN f[i - 1] ELSE Closing(f[i - 1], order[i], RowsOn(w, loaded, order[i]), events, targets, entry)
    BY DEF Do, p
  <2> QED BY <2>1, <2>2
<1>7. f[0] = b
  BY <1>5 DEF Rounds, base
<1>8. g[1..n] = f[n]
  BY <1>5 DEF Rounds
<1>9. DayRun(f, n, b, days, w, loaded, events, targets, entry, order)
  BY <1>3, <1>6, <1>7, <1>8 DEF DayRun
<1> QED BY <1>9

-----------------------------------------------------------------------------
(* Positions and what they cost.                                           *)

Lots == UNION {[H -> Seq(Lot)] : H \in SUBSET Key}

AtCost(lots) == SumFunction([k \in DOMAIN lots |-> Basis(lots[k])])

BasisBy(lots) == [k \in DOMAIN lots |-> Basis(lots[k])]

LEMMA LotsAre ==
  ASSUME NEW lots
  PROVE  lots \in Lots <=> DOMAIN lots \in SUBSET Key /\ lots \in [DOMAIN lots -> Seq(Lot)]
BY DEF Lots

LEMMA CostIs ==
  ASSUME NEW lots \in Lots
  PROVE  /\ IsFiniteSet(DOMAIN lots)
         /\ \A k \in DOMAIN lots : BasisBy(lots)[k] = Basis(lots[k]) /\ Basis(lots[k]) \in Nat
         /\ AtCost(lots) = SumOn(BasisBy(lots), DOMAIN lots)
         /\ AtCost(lots) \in Nat
<1>1. DOMAIN lots \in SUBSET Key /\ lots \in [DOMAIN lots -> Seq(Lot)]
  BY LotsAre
<1>2. IsFiniteSet(DOMAIN lots)
  BY <1>1, KeyFinite, FS_Subset
<1>3. \A k \in DOMAIN lots : BasisBy(lots)[k] = Basis(lots[k]) /\ Basis(lots[k]) \in Nat
  BY <1>1, LotsTyped DEF BasisBy
<1>4. BasisBy(lots) = [k \in DOMAIN lots |-> BasisBy(lots)[k]]
  BY DEF BasisBy
<1>5. AtCost(lots) = SumOn(BasisBy(lots), DOMAIN lots)
  BY <1>4 DEF AtCost, SumOn, BasisBy
<1>6. SumOn(BasisBy(lots), DOMAIN lots) \in Nat
  BY <1>2, <1>3, SumTyped
<1> QED BY <1>2, <1>3, <1>5, <1>6

LEMMA CostSame ==
  ASSUME NEW s \in Lots, NEW t \in Lots, DOMAIN s = DOMAIN t,
         \A k \in DOMAIN s : Basis(s[k]) = Basis(t[k])
  PROVE  AtCost(s) = AtCost(t)
BY DEF AtCost

LEMMA CostWithout ==
  ASSUME NEW lots \in Lots, NEW key
  PROVE  /\ Without(lots, key) \in Lots
         /\ DOMAIN Without(lots, key) = (DOMAIN lots) \ {key}
         /\ key \in DOMAIN lots => AtCost(lots) = AtCost(Without(lots, key)) + Basis(lots[key])
         /\ key \notin DOMAIN lots => AtCost(lots) = AtCost(Without(lots, key))
<1> DEFINE rest == Without(lots, key)
<1>1. DOMAIN lots \in SUBSET Key /\ lots \in [DOMAIN lots -> Seq(Lot)]
  BY LotsAre
<1>2. DOMAIN rest = (DOMAIN lots) \ {key} /\ \A k \in DOMAIN rest : rest[k] = lots[k]
  BY DEF Without
<1>3. rest \in [DOMAIN rest -> Seq(Lot)]
  BY <1>1 DEF Without
<1>4. rest \in Lots
  BY <1>1, <1>2, <1>3, LotsAre
<1>5. ASSUME key \in DOMAIN lots
      PROVE  AtCost(lots) = AtCost(rest) + Basis(lots[key])
  <2> DEFINE v == BasisBy(lots)
             u == BasisBy(rest)
             D == DOMAIN lots
             R == DOMAIN rest
  <2>1. /\ IsFiniteSet(D) /\ (\A k \in D : v[k] = Basis(lots[k]) /\ v[k] \in Nat)
        /\ AtCost(lots) = SumOn(v, D)
    BY CostIs
  <2>2. /\ \A k \in R : u[k] = Basis(rest[k])
        /\ AtCost(rest) = SumOn(u, R) /\ AtCost(rest) \in Nat
    BY <1>4, CostIs
  <2>3. \A k \in R : u[k] = v[k]
    BY <1>2, <2>1, <2>2
  <2>4. R = D \ {key} /\ key \in D
    BY <1>2, <1>5
  <2> HIDE DEF u, v, rest, D, R
  <2>5. SumOn(u, R) = SumOn(v, R)
    BY <2>3 DEF SumOn
  <2>6. \A k \in D : v[k] \in Int
    BY <2>1
  <2>7. SumOn(v, D) = v[key] + SumOn(v, R)
    BY <2>1, <2>4, <2>6, SumSplit
  <2>8. v[key] = Basis(lots[key]) /\ v[key] \in Nat
    BY <2>1, <2>4
  <2> QED BY <2>1, <2>2, <2>5, <2>7, <2>8
<1>6. ASSUME key \notin DOMAIN lots PROVE AtCost(lots) = AtCost(rest)
  <2>1. DOMAIN rest = DOMAIN lots
    BY <1>2, <1>6
  <2>2. rest = lots
    BY <1>1, <1>2, <1>3, <2>1
  <2> QED BY <2>2
<1> QED BY <1>2, <1>4, <1>5, <1>6

\* The positions "lots" with the lots s at "key".
Placed(t, lots, key, s) ==
  t = [k \in (DOMAIN lots) \cup {key} |-> IF k = key THEN s ELSE lots[k]]

LEMMA CostWith ==
  ASSUME NEW lots \in Lots, NEW key \in Key, NEW s \in Seq(Lot), NEW t, Placed(t, lots, key, s)
  PROVE  t \in Lots /\ AtCost(t) = AtCost(Without(lots, key)) + Basis(s)
<1>1. DOMAIN lots \in SUBSET Key /\ lots \in [DOMAIN lots -> Seq(Lot)]
  BY LotsAre
<1>2. DOMAIN t = (DOMAIN lots) \cup {key} /\ t \in [DOMAIN t -> Seq(Lot)] /\ t[key] = s
  BY <1>1 DEF Placed
<1>3. t \in Lots
  BY <1>1, <1>2, LotsAre
<1>4. Without(t, key) = Without(lots, key)
  <2>1. (DOMAIN t) \ {key} = (DOMAIN lots) \ {key}
    BY <1>2
  <2>2. \A k \in (DOMAIN lots) \ {key} : t[k] = lots[k]
    BY DEF Placed
  <2> QED BY <2>1, <2>2 DEF Without
<1>5. AtCost(t) = AtCost(Without(t, key)) + Basis(s)
  BY <1>2, <1>3, CostWithout
<1> QED BY <1>3, <1>4, <1>5

(* More shares for the same money.                                         *)
Rescaled(lots, m) == [i \in DOMAIN lots |-> [lots[i] EXCEPT !.shares = @ * m]]

LEMMA RescaledIs ==
  ASSUME NEW lots \in Seq(Lot), NEW m \in Nat \ {0}
  PROVE  Rescaled(lots, m) \in Seq(Lot) /\ Basis(Rescaled(lots, m)) = Basis(lots)
<1>1. DOMAIN lots = 1..Len(lots) /\ Len(lots) \in Nat
  OBVIOUS
<1>2. ASSUME NEW i \in DOMAIN lots
      PROVE  [lots[i] EXCEPT !.shares = @ * m] \in Lot
             /\ [lots[i] EXCEPT !.shares = @ * m].basis = lots[i].basis
  <2>1. lots[i] \in Lot
    OBVIOUS
  <2>2. lots[i].shares * m \in Nat \ {0}
    BY <2>1 DEF Lot
  <2> QED BY <2>1, <2>2 DEF Lot
<1>3. Rescaled(lots, m) \in Seq(Lot) /\ DOMAIN Rescaled(lots, m) = DOMAIN lots
  BY <1>1, <1>2 DEF Rescaled
<1>4. \A i \in DOMAIN lots : Rescaled(lots, m)[i].basis = lots[i].basis
  BY <1>2 DEF Rescaled
<1> QED BY <1>3, <1>4 DEF Basis

LEMMA NoLots == <<>> \in Seq(Lot) /\ Basis(<<>>) = 0 /\ Shares(<<>>) = 0
<1>1. <<>> \in Seq(Lot) /\ Len(<<>>) = 0
  OBVIOUS
<1> QED BY <1>1, LotsSum, SumNone

-----------------------------------------------------------------------------
(* Taxes.                                                                  *)

LEMMA TaxOnGain ==
  ASSUME NEW a \in Int, NEW s \in Int, NEW p \in 0..100
  PROVE  /\ (Max({a, 0}) * p) \div 100 \in Nat
         /\ (Max({a + s, 0}) * p) \div 100 <= (Max({a, 0}) * p) \div 100 + (IF s >= 0 THEN s ELSE 0)
<1> PICK x \in Nat : x = IF a >= 0 THEN a ELSE 0
  OBVIOUS
<1> PICK y \in Nat : y = IF a + s >= 0 THEN a + s ELSE 0
  OBVIOUS
<1> PICK g \in Nat : g = IF s >= 0 THEN s ELSE 0
  OBVIOUS
<1>1. PICK k \in Nat : y + k = x + g
  <2>1. x + g - y \in Nat /\ y + (x + g - y) = x + g
    OBVIOUS
  <2> QED BY <2>1
<1>2. PICK u, v, z \in Nat : u = x * p /\ v = y * p /\ z = (x + g) * p
  OBVIOUS
<1>3. v <= z
  <2>1. (y + k) * p = y * p + k * p /\ k * p \in Nat
    OBVIOUS
  <2> QED BY <1>1, <1>2, <2>1
<1>4. v \div 100 <= z \div 100
  BY <1>3, DivMono
<1>5. z \div 100 <= u \div 100 + g
  BY <1>2, PercentGrows
<1>6. u \div 100 \in Nat /\ v \div 100 \in Nat /\ z \div 100 \in Nat
  OBVIOUS
<1>7. Max({a, 0}) = x /\ Max({a + s, 0}) = y
  <2>1. a + s \in Int
    OBVIOUS
  <2> QED BY <2>1, Positive
<1> HIDE <1>1
<1> QED BY <1>2, <1>4, <1>5, <1>6, <1>7

Owed(terms, short, long, income) ==
  (Max({short, 0}) * terms.short) \div 100
    + (Max({long, 0}) * terms.long) \div 100
    + (income * terms.dividend) \div 100

LEMMA OwedGrows ==
  ASSUME NEW terms \in Rates, NEW a \in Int, NEW b \in Int, NEW i \in Nat,
         NEW s \in Int, NEW l \in Int, NEW x \in Nat, NEW n \in Nat,
         s <= n, l <= n, s + l <= n
  PROVE  /\ Owed(terms, a, b, i) \in Nat /\ Owed(terms, a + s, b + l, i + x) \in Nat
         /\ Owed(terms, a + s, b + l, i + x) <= Owed(terms, a, b, i) + n + x
<1> PICK p, q, r \in 0..100 : p = terms.short /\ q = terms.long /\ r = terms.dividend
  BY DEF Rates
<1>1. /\ (Max({a, 0}) * p) \div 100 \in Nat
      /\ (Max({a + s, 0}) * p) \div 100 <= (Max({a, 0}) * p) \div 100 + (IF s >= 0 THEN s ELSE 0)
  BY TaxOnGain
<1>2. /\ (Max({b, 0}) * q) \div 100 \in Nat
      /\ (Max({b + l, 0}) * q) \div 100 <= (Max({b, 0}) * q) \div 100 + (IF l >= 0 THEN l ELSE 0)
  BY TaxOnGain
<1>3. (Max({a + s, 0}) * p) \div 100 \in Nat /\ (Max({b + l, 0}) * q) \div 100 \in Nat
  <2>1. a + s \in Int /\ b + l \in Int
    OBVIOUS
  <2> QED BY <2>1, TaxOnGain
<1>4. ((i + x) * r) \div 100 <= (i * r) \div 100 + x
  BY PercentGrows
<1>5. (i * r) \div 100 \in Nat /\ ((i + x) * r) \div 100 \in Nat
  <2> PICK u, v \in Nat : u = i * r /\ v = (i + x) * r
    OBVIOUS
  <2>1. u \div 100 \in Nat /\ v \div 100 \in Nat
    BY ONLY u \in Nat, v \in Nat
  <2> QED BY <2>1
<1> PICK a1, a2, b1, b2, i1, i2 \in Nat :
      /\ a1 = (Max({a, 0}) * p) \div 100 /\ a2 = (Max({a + s, 0}) * p) \div 100
      /\ b1 = (Max({b, 0}) * q) \div 100 /\ b2 = (Max({b + l, 0}) * q) \div 100
      /\ i1 = (i * r) \div 100 /\ i2 = ((i + x) * r) \div 100
  BY <1>1, <1>2, <1>3, <1>5
<1>6. Owed(terms, a, b, i) = a1 + b1 + i1 /\ Owed(terms, a + s, b + l, i + x) = a2 + b2 + i2
  BY DEF Owed
<1>7. /\ a2 <= a1 + (IF s >= 0 THEN s ELSE 0) /\ b2 <= b1 + (IF l >= 0 THEN l ELSE 0)
      /\ i2 <= i1 + x
  BY <1>1, <1>2, <1>4
<1>8. a2 + b2 + i2 <= a1 + b1 + i1 + n + x
  BY ONLY <1>7, s \in Int, l \in Int, n \in Nat, x \in Nat, s <= n, l <= n, s + l <= n,
          a1 \in Nat, a2 \in Nat, b1 \in Nat, b2 \in Nat, i1 \in Nat, i2 \in Nat
<1>9. a1 + b1 + i1 \in Nat /\ a2 + b2 + i2 \in Nat
  BY ONLY a1 \in Nat, a2 \in Nat, b1 \in Nat, b2 \in Nat, i1 \in Nat, i2 \in Nat
<1> QED BY ONLY <1>6, <1>8, <1>9

LEMMA OwedNat ==
  ASSUME NEW terms \in Rates, NEW a \in Int, NEW b \in Int, NEW i \in Nat
  PROVE  Owed(terms, a, b, i) \in Nat
<1>1. PICK z \in Nat : z = 0
  OBVIOUS
<1>2. z \in Int /\ z <= z /\ z + z <= z
  BY <1>1
<1> QED BY <1>2, OwedGrows

-----------------------------------------------------------------------------
(* The book: its shape, and the invariant that every operation keeps.      *)

Point == [day : Int, equity : Int, stale : SUBSET Key]

Marks == UNION {[M -> Nat] : M \in SUBSET Key}

Book ==
  [terms : Rates, cash : Int, lots : Lots, mark : Marks, marked : Marks,
   short : Int, long : Int, income : Nat, tax : Nat, costs : Nat,
   last : Int, curve : Seq(Point), refused : BOOLEAN]

\* The money adds up, but for the taxes still to be provided.
Adds(b) == b.cash + AtCost(b.lots) = Capital + b.short + b.long + b.income - b.tax

Sound(b) ==
  /\ b \in Book /\ Adds(b)
  /\ b.tax = TaxesDue(b) /\ b.cash >= 0

\* What an operation of a session or of a rebalance leaves alone.
Frame(b, c) == c.terms = b.terms /\ c.curve = b.curve /\ c.last = b.last

LEMMA MarksAre ==
  ASSUME NEW marks
  PROVE  marks \in Marks <=> DOMAIN marks \in SUBSET Key /\ marks \in [DOMAIN marks -> Nat]
BY DEF Marks

LEMMA BookIs ==
  ASSUME NEW b \in Book
  PROVE  /\ b.terms \in Rates /\ b.cash \in Int /\ b.short \in Int /\ b.long \in Int
         /\ b.income \in Nat /\ b.tax \in Nat /\ b.costs \in Nat /\ b.last \in Int
         /\ b.lots \in Lots /\ Held(b) = DOMAIN b.lots /\ Held(b) \in SUBSET Key
         /\ b.lots \in [Held(b) -> Seq(Lot)]
         /\ b.mark \in Marks /\ b.marked \in Marks
         /\ b.curve \in Seq(Point) /\ b.refused \in BOOLEAN
         /\ AtCost(b.lots) \in Nat
         /\ TaxesDue(b) = Owed(b.terms, b.short, b.long, b.income) /\ TaxesDue(b) \in Nat
<1>1. /\ b.terms \in Rates /\ b.cash \in Int /\ b.short \in Int /\ b.long \in Int
      /\ b.income \in Nat /\ b.tax \in Nat /\ b.costs \in Nat /\ b.last \in Int
      /\ b.lots \in Lots /\ b.mark \in Marks /\ b.marked \in Marks
      /\ b.curve \in Seq(Point) /\ b.refused \in BOOLEAN
  BY DEF Book
<1>2. Held(b) = DOMAIN b.lots /\ Held(b) \in SUBSET Key /\ b.lots \in [Held(b) -> Seq(Lot)]
  BY <1>1, LotsAre DEF Held
<1>3. TaxesDue(b) = Owed(b.terms, b.short, b.long, b.income)
  BY DEF TaxesDue, Owed
<1>4. Owed(b.terms, b.short, b.long, b.income) \in Nat
  BY <1>1, OwedNat
<1>5. AtCost(b.lots) \in Nat
  BY <1>1, CostIs
<1> QED BY <1>1, <1>2, <1>3, <1>4, <1>5

LEMMA NewSound ==
  ASSUME NEW terms \in Rates
  PROVE  /\ Sound(NewBook(terms)) /\ Held(NewBook(terms)) = {}
         /\ NewBook(terms).curve = <<>> /\ NewBook(terms).last = Unmarked
         /\ NewBook(terms).terms = terms /\ ~NewBook(terms).refused
<1> DEFINE b == NewBook(terms)
<1>1. /\ b.terms = terms /\ b.cash = Capital /\ b.lots = <<>> /\ b.short = 0 /\ b.long = 0
      /\ b.income = 0 /\ b.tax = 0 /\ b.curve = <<>> /\ b.last = Unmarked /\ ~b.refused
  BY DEF NewBook
<1>2. Capital \in Nat /\ Unmarked \in Int
  BY TradingBookAssumption
<1>3. <<>> \in Lots /\ <<>> \in Marks /\ DOMAIN <<>> = {} /\ <<>> \in Seq(Point)
  <2>1. DOMAIN <<>> = {} /\ <<>> \in Seq(Point)
    OBVIOUS
  <2>2. <<>> \in [DOMAIN <<>> -> Seq(Lot)] /\ <<>> \in [DOMAIN <<>> -> Nat]
    BY <2>1
  <2> QED BY <2>1, <2>2, LotsAre, MarksAre
<1>4. b \in Book
  BY <1>2, <1>3 DEF NewBook, Book
<1>5. AtCost(b.lots) = 0
  <2>1. AtCost(<<>>) = SumOn(BasisBy(<<>>), {}) /\ IsFiniteSet({})
    BY <1>3, CostIs, FS_EmptySet
  <2>2. AtCost(<<>>) = 0
    BY <2>1, SumStep
  <2> QED BY <1>1, <2>2
<1>6. TaxesDue(b) = 0
  <2>1. terms.short \in Nat /\ terms.long \in Nat /\ terms.dividend \in Nat
    BY DEF Rates
  <2>2. Max({0, 0}) = 0
    BY Positive
  <2>3. 0 \div 100 = 0
    OBVIOUS
  <2> QED BY <1>1, <2>1, <2>2, <2>3 DEF TaxesDue
<1>7. Adds(b)
  <2> HIDE DEF b
  <2> QED BY <1>1, <1>2, <1>5 DEF Adds
<1>8. Held(b) = {}
  BY <1>1, <1>3 DEF Held
<1> HIDE DEF b
<1>9. Sound(b)
  BY <1>1, <1>2, <1>4, <1>6, <1>7 DEF Sound
<1> QED BY <1>1, <1>8, <1>9 DEF b

-----------------------------------------------------------------------------
(* The operations of a session.                                            *)

LEMMA RefusedSound ==
  ASSUME NEW b, Sound(b)
  PROVE  /\ Sound(Refused(b)) /\ Refused(b).refused /\ Frame(b, Refused(b))
         /\ Refused(b).lots = b.lots /\ Refused(b).mark = b.mark
<1> DEFINE c == Refused(b)
<1>1. b \in Book
  BY DEF Sound
<1>2. /\ c \in Book /\ c.refused
      /\ c.terms = b.terms /\ c.cash = b.cash /\ c.lots = b.lots /\ c.mark = b.mark
      /\ c.short = b.short /\ c.long = b.long /\ c.income = b.income /\ c.tax = b.tax
      /\ c.curve = b.curve /\ c.last = b.last
  BY <1>1 DEF Refused, Book
<1> HIDE DEF c
<1>3. TaxesDue(c) = TaxesDue(b)
  BY <1>2 DEF TaxesDue
<1>4. Sound(c)
  BY <1>2, <1>3 DEF Sound, Adds
<1> QED BY <1>2, <1>4 DEF Frame, c

LEMMA SyncSound ==
  ASSUME NEW b \in Book, Adds(b), TaxesDue(b) <= b.cash + b.tax
  PROVE  LET c == SyncTax(b)
         IN  /\ Sound(c) /\ Frame(b, c) /\ c.refused = b.refused
             /\ c.lots = b.lots /\ c.mark = b.mark /\ c.marked = b.marked
<1> DEFINE c == SyncTax(b)
           due == TaxesDue(b)
<1>1. due \in Nat /\ b.cash \in Int /\ b.tax \in Nat /\ b.cash - (due - b.tax) \in Int
  BY BookIs
<1>2. c = [b EXCEPT !.cash = b.cash - (due - b.tax), !.tax = due]
  BY DEF SyncTax, Provide
<1> HIDE DEF c, due
<1>3. /\ c \in Book /\ c.cash = b.cash - (due - b.tax) /\ c.tax = due
      /\ c.terms = b.terms /\ c.lots = b.lots /\ c.mark = b.mark /\ c.marked = b.marked
      /\ c.short = b.short /\ c.long = b.long /\ c.income = b.income
      /\ c.curve = b.curve /\ c.last = b.last /\ c.refused = b.refused
  BY <1>1, <1>2 DEF Book
<1>4. TaxesDue(c) = due
  BY <1>3 DEF TaxesDue, due
<1>5. /\ b.short \in Int /\ b.long \in Int /\ b.income \in Nat /\ AtCost(b.lots) \in Nat
      /\ Capital \in Int
  BY BookIs, TradingBookAssumption
<1>6. Adds(c)
  <2> PICK cash, was, now \in Int : cash = b.cash /\ was = b.tax /\ now = due
    BY <1>1
  <2> PICK cost, capital \in Int : cost = AtCost(b.lots) /\ capital = Capital
    BY <1>5
  <2> PICK short, long, income \in Int : short = b.short /\ long = b.long /\ income = b.income
    BY <1>5
  <2>1. cash + cost = capital + short + long + income - was
    BY DEF Adds
  <2>2. (cash - (now - was)) + cost = capital + short + long + income - now
    BY ONLY <2>1, cash \in Int, was \in Int, now \in Int, cost \in Int, capital \in Int,
            short \in Int, long \in Int, income \in Int
  <2> QED BY <1>3, <2>2 DEF Adds
<1>7. c.cash >= 0
  BY <1>1, <1>3 DEF due
<1>8. Sound(c)
  BY <1>3, <1>4, <1>6, <1>7 DEF Sound
<1> QED BY <1>3, <1>8 DEF Frame, c

(* A change of the positions at the same cost.                             *)
Repositioned(c, b, lots, mark, marked) ==
  c = [b EXCEPT !.lots = lots, !.mark = mark, !.marked = marked]

LEMMA LotsSound ==
  ASSUME NEW b, Sound(b), NEW c, NEW lots \in Lots, AtCost(lots) = AtCost(b.lots),
         NEW mark \in Marks, NEW marked \in Marks, Repositioned(c, b, lots, mark, marked)
  PROVE  /\ Sound(c) /\ Frame(b, c) /\ c.refused = b.refused
         /\ c.lots = lots /\ c.mark = mark /\ c.marked = marked /\ Held(c) = DOMAIN lots
<1>1. b \in Book
  BY DEF Sound
<1>2. /\ c \in Book /\ c.cash = b.cash /\ c.tax = b.tax
      /\ c.terms = b.terms /\ c.lots = lots /\ c.mark = mark /\ c.marked = marked
      /\ c.short = b.short /\ c.long = b.long /\ c.income = b.income
      /\ c.curve = b.curve /\ c.last = b.last /\ c.refused = b.refused
  BY <1>1 DEF Book, Repositioned
<1>3. TaxesDue(c) = TaxesDue(b)
  BY <1>2 DEF TaxesDue
<1>4. Adds(c)
  BY <1>2 DEF Adds, Sound
<1>5. Sound(c)
  BY <1>2, <1>3, <1>4 DEF Sound
<1> QED BY <1>2, <1>5 DEF Frame, Held

Loaded(loaded, rows) == loaded \in SUBSET Key /\ rows \in [loaded -> PriceRow]

Covered(b, loaded, rows) ==
  Held(b) \subseteq loaded /\ Held(b) \subseteq (DOMAIN b.mark) \cup Quoted(rows)

LEMMA WithoutMark ==
  ASSUME NEW marks \in Marks, NEW key
  PROVE  Without(marks, key) \in Marks /\ DOMAIN Without(marks, key) = (DOMAIN marks) \ {key}
<1>1. DOMAIN marks \in SUBSET Key /\ marks \in [DOMAIN marks -> Nat]
  BY MarksAre
<1>2. /\ DOMAIN Without(marks, key) = (DOMAIN marks) \ {key}
      /\ Without(marks, key) \in [DOMAIN Without(marks, key) -> Nat]
  BY <1>1 DEF Without
<1> QED BY <1>1, <1>2, MarksAre

LEMMA ConvertSound ==
  ASSUME NEW b, Sound(b), ~b.refused, NEW loaded, NEW rows, Loaded(loaded, rows),
         Covered(b, loaded, rows), NEW event \in Within(loaded), NEW day
  PROVE  LET c == Convert(b, event, day, rows)
         IN  Sound(c) /\ Frame(b, c) /\ Covered(c, loaded, rows)
<1> DEFINE c == Convert(b, event, day, rows)
           old == b.lots[event.from]
           joined == LotsOf(b, event.to) \o Rescaled(old, event.ratio)
           rest == Without(b.lots, event.from)
           moved == [b EXCEPT !.lots = rest,
                              !.mark = Without(b.mark, event.from),
                              !.marked = Without(b.marked, event.from)]
<1>1. b \in Book /\ event \in Conversion /\ event.from \in loaded /\ event.to \in loaded
  BY DEF Sound, Within
<1>2. event.from \in Key /\ event.to \in Key /\ event.ratio \in Nat \ {0}
  BY <1>1 DEF Conversion
<1>3. CASE event.day # day \/ event.from \notin Held(b)
  <2>1. c = b
    BY <1>3 DEF Convert
  <2> QED BY <2>1 DEF Frame
<1>4. CASE ~(event.day # day \/ event.from \notin Held(b)) /\ ~Priced(rows[event.to])
  <2>1. c = Refused(b)
    BY <1>4 DEF Convert
  <2> QED BY <2>1, RefusedSound DEF Covered, Held
<1>5. CASE ~(event.day # day \/ event.from \notin Held(b)) /\ Priced(rows[event.to])
  <2> PICK from, to : from = event.from /\ to = event.to
    OBVIOUS
  <2>1. /\ b.lots \in Lots /\ from \in DOMAIN b.lots /\ Held(b) = DOMAIN b.lots
        /\ b.lots \in [Held(b) -> Seq(Lot)] /\ b.mark \in Marks /\ b.marked \in Marks
    BY <1>1, <1>5, BookIs
  <2>2. c = WithLots(moved, to, joined)
    BY <1>5, Zenon DEF Convert, Rescaled
  <2>3. Rescaled(old, event.ratio) \in Seq(Lot) /\ Basis(Rescaled(old, event.ratio)) = Basis(old)
    BY <1>2, <2>1, RescaledIs
  <2>4. LotsOf(b, to) \in Seq(Lot) /\ (to \in DOMAIN b.lots => LotsOf(b, to) = b.lots[to])
        /\ (to \notin DOMAIN b.lots => Basis(LotsOf(b, to)) = 0)
    BY <2>1, NoLots DEF LotsOf
  <2>5. joined \in Seq(Lot) /\ Basis(joined) = Basis(LotsOf(b, to)) + Basis(old)
    BY <2>3, <2>4, LotsJoin
  <2>6. /\ rest \in Lots /\ DOMAIN rest = (DOMAIN b.lots) \ {from}
        /\ AtCost(b.lots) = AtCost(rest) + Basis(old)
    BY <2>1, CostWithout
  <2> DEFINE lots == [k \in (DOMAIN rest) \cup {to} |-> IF k = to THEN joined ELSE rest[k]]
  <2>7. lots \in Lots /\ AtCost(lots) = AtCost(Without(rest, to)) + Basis(joined)
    <3>1. Placed(lots, rest, to, joined)
      BY DEF Placed
    <3> HIDE DEF lots, rest, joined
    <3> QED BY <1>2, <2>5, <2>6, <3>1, CostWith
  <2> PICK mark, marked : mark = Without(b.mark, from) /\ marked = Without(b.marked, from)
    OBVIOUS
  <2>8. /\ mark \in Marks /\ DOMAIN mark = (DOMAIN b.mark) \ {from} /\ marked \in Marks
    BY <2>1, WithoutMark
  <2>9. Repositioned(c, b, lots, mark, marked)
    <3>1. moved.lots = rest /\ DOMAIN moved.lots = DOMAIN rest
      BY <1>1 DEF Book
    <3>2. c = [moved EXCEPT !.lots = lots]
      BY <2>2, <3>1 DEF WithLots
    <3>3. moved = [b EXCEPT !.lots = rest, !.mark = mark, !.marked = marked]
      OBVIOUS
    <3> HIDE DEF lots, rest, moved
    <3> QED BY <1>1, <3>2, <3>3 DEF Book, Repositioned
  <2>10. from # to /\ to \in Key
    BY <1>1, <1>2 DEF Conversion
  <2>11. AtCost(lots) = AtCost(b.lots)
    <3>1. to \in DOMAIN rest => to \in DOMAIN b.lots /\ rest[to] = b.lots[to]
      BY <2>6 DEF Without
    <3>2. /\ to \in DOMAIN rest => AtCost(rest) = AtCost(Without(rest, to)) + Basis(rest[to])
          /\ to \notin DOMAIN rest => AtCost(rest) = AtCost(Without(rest, to))
          /\ AtCost(Without(rest, to)) \in Nat
      BY <2>6, CostWithout, CostIs
    <3>3. to \in DOMAIN rest <=> to \in DOMAIN b.lots
      BY <2>6, <2>10
    <3>4. Basis(old) \in Nat /\ Basis(LotsOf(b, to)) \in Nat
      BY <2>1, <2>4, LotsTyped
    <3> HIDE DEF lots, rest, old, joined, moved, c
    <3>5. AtCost(rest) = AtCost(Without(rest, to)) + Basis(LotsOf(b, to))
      BY <2>4, <3>1, <3>2, <3>3
    <3> QED BY <2>5, <2>6, <2>7, <3>2, <3>4, <3>5
  <2>12. DOMAIN lots = ((DOMAIN b.lots) \ {from}) \cup {to}
    BY <2>6
  <2> HIDE DEF lots, rest, old, joined, moved, c
  <2>13. /\ Sound(c) /\ Frame(b, c) /\ Held(c) = DOMAIN lots /\ c.mark = mark
    BY <2>7, <2>8, <2>9, <2>11, LotsSound
  <2>14. to \in Quoted(rows)
    BY <1>1, <1>5 DEF Quoted, Loaded
  <2>15. Covered(c, loaded, rows)
    BY <1>1, <2>1, <2>8, <2>12, <2>13, <2>14 DEF Covered
  <2> QED BY <2>13, <2>15 DEF c
<1> QED BY <1>3, <1>4, <1>5

LEMMA ConversionsSound ==
  ASSUME NEW b, Sound(b), NEW loaded, NEW rows, Loaded(loaded, rows),
         Covered(b, loaded, rows), NEW events \in Seq(Within(loaded)), NEW day
  PROVE  LET c == ApplyConversions(b, day, events, rows)
         IN  Sound(c) /\ Frame(b, c) /\ Covered(c, loaded, rows)
<1> PICK n \in Nat : n = Len(events) /\ DOMAIN events = 1..n
  OBVIOUS
<1> PICK f : ConversionRun(f, n, b, day, events, rows)
  BY ConversionRounds
<1>1. /\ f[0] = b
      /\ \A i \in 1..n :
           f[i] = IF f[i - 1].refused THEN f[i - 1] ELSE Convert(f[i - 1], events[i], day, rows)
      /\ ApplyConversions(b, day, events, rows) = f[n]
  BY DEF ConversionRun
<1> DEFINE T == {k \in Nat : k <= n => Sound(f[k]) /\ Frame(b, f[k]) /\ Covered(f[k], loaded, rows)}
<1>2. 0 \in T
  BY <1>1 DEF Frame
<1>3. ASSUME NEW k \in Nat, k \in T PROVE k + 1 \in T
  <2> SUFFICES ASSUME k + 1 <= n
               PROVE  Sound(f[k + 1]) /\ Frame(b, f[k + 1]) /\ Covered(f[k + 1], loaded, rows)
    OBVIOUS
  <2>1. Sound(f[k]) /\ Frame(b, f[k]) /\ Covered(f[k], loaded, rows)
    BY <1>3
  <2>2. k + 1 \in 1..n /\ (k + 1) - 1 = k
    OBVIOUS
  <2>3. events[k + 1] \in Within(loaded)
    BY <2>2
  <2>4. f[k + 1] = IF f[k].refused THEN f[k] ELSE Convert(f[k], events[k + 1], day, rows)
    BY <1>1, <2>2
  <2>5. CASE f[k].refused
    BY <2>1, <2>4, <2>5
  <2>6. CASE ~f[k].refused
    <3>1. LET c == Convert(f[k], events[k + 1], day, rows)
          IN  Sound(c) /\ Frame(f[k], c) /\ Covered(c, loaded, rows)
      BY <2>1, <2>3, <2>6, ConvertSound
    <3> QED BY <2>1, <2>4, <2>6, <3>1 DEF Frame
  <2> QED BY <2>5, <2>6
<1>4. T \in SUBSET Nat
  OBVIOUS
<1> HIDE DEF T
<1>5. T = Nat
  BY <1>2, <1>3, <1>4, Counted
<1>6. n \in T
  BY <1>5
<1> QED BY <1>1, <1>6 DEF T

LEMMA SplitsSound ==
  ASSUME NEW b, Sound(b), NEW loaded, NEW rows, Loaded(loaded, rows), Covered(b, loaded, rows)
  PROVE  LET c == AfterSplits(b, rows)
         IN  Sound(c) /\ Frame(b, c) /\ Covered(c, loaded, rows) /\ c.refused = b.refused
<1> DEFINE c == AfterSplits(b, rows)
           lots == [k \in Held(b) |->
                      IF rows[k].split # 1 /\ ~rows[k].adjusted
                      THEN [i \in DOMAIN b.lots[k] |-> [b.lots[k][i] EXCEPT !.shares = @ * rows[k].split]]
                      ELSE b.lots[k]]
<1>1. b \in Book
  BY DEF Sound
<1>2. /\ b.lots \in Lots /\ Held(b) = DOMAIN b.lots /\ Held(b) \in SUBSET Key
      /\ b.lots \in [Held(b) -> Seq(Lot)] /\ b.mark \in Marks /\ b.marked \in Marks
  BY <1>1, BookIs
<1>3. ASSUME NEW k \in Held(b)
      PROVE  lots[k] \in Seq(Lot) /\ Basis(lots[k]) = Basis(b.lots[k])
  <2>1. rows[k].split \in Nat \ {0} /\ b.lots[k] \in Seq(Lot)
    BY <1>2 DEF Covered, Loaded, PriceRow
  <2>2. Rescaled(b.lots[k], rows[k].split) \in Seq(Lot)
        /\ Basis(Rescaled(b.lots[k], rows[k].split)) = Basis(b.lots[k])
    BY <2>1, RescaledIs
  <2>3. lots[k] = IF rows[k].split # 1 /\ ~rows[k].adjusted
                  THEN Rescaled(b.lots[k], rows[k].split) ELSE b.lots[k]
    BY DEF Rescaled
  <2> HIDE DEF lots
  <2> QED BY <2>1, <2>2, <2>3
<1>4. DOMAIN lots = Held(b)
  OBVIOUS
<1>5. Repositioned(c, b, lots, b.mark, b.marked)
  <2>1. c = [b EXCEPT !.lots = lots]
    BY DEF AfterSplits
  <2> HIDE DEF lots, c
  <2> QED BY <1>1, <2>1 DEF Book, Repositioned
<1>6. lots \in [Held(b) -> Seq(Lot)]
  BY <1>3
<1> HIDE DEF lots, c
<1>7. lots \in Lots
  BY <1>2, <1>4, <1>6, LotsAre
<1>8. AtCost(lots) = AtCost(b.lots)
  BY <1>2, <1>3, <1>4, <1>7, CostSame
<1>9. Sound(c) /\ Frame(b, c) /\ c.refused = b.refused /\ c.mark = b.mark /\ Held(c) = Held(b)
  <2> PICK mark, marked \in Marks : mark = b.mark /\ marked = b.marked
    BY <1>2
  <2>1. Repositioned(c, b, lots, mark, marked)
    BY <1>5
  <2>2. /\ Sound(c) /\ Frame(b, c) /\ c.refused = b.refused
        /\ c.lots = lots /\ c.mark = mark /\ c.marked = marked /\ Held(c) = DOMAIN lots
    BY <1>7, <1>8, <2>1, LotsSound
  <2> QED BY <1>2, <1>4, <2>2
<1> QED BY <1>9 DEF Covered, c

LEMMA SumNat ==
  ASSUME NEW v, IsFiniteSet(DOMAIN v), v = [k \in DOMAIN v |-> v[k]]
  PROVE  /\ (\A k \in DOMAIN v : v[k] \in Nat) => SumFunction(v) \in Nat
         /\ (\A k \in DOMAIN v : v[k] \in Int) => SumFunction(v) \in Int
<1>1. SumFunction(v) = SumOn(v, DOMAIN v)
  BY DEF SumOn
<1> QED BY <1>1, SumTyped

LEMMA IncomeSound ==
  ASSUME NEW b, Sound(b), NEW loaded, NEW rows, Loaded(loaded, rows), Covered(b, loaded, rows)
  PROVE  LET c == WithIncome(b, rows)
         IN  Sound(c) /\ Frame(b, c) /\ Covered(c, loaded, rows) /\ c.refused = b.refused
<1> PICK x : x = Income(b, rows)
  OBVIOUS
<1>1. b \in Book
  BY DEF Sound
<1>2. /\ Held(b) \in SUBSET Key /\ b.lots \in [Held(b) -> Seq(Lot)]
      /\ b.terms \in Rates /\ b.cash \in Int /\ b.short \in Int /\ b.long \in Int
      /\ b.income \in Nat /\ b.tax \in Nat /\ AtCost(b.lots) \in Nat
      /\ TaxesDue(b) = Owed(b.terms, b.short, b.long, b.income)
  BY <1>1, BookIs
<1>3. x \in Nat
  <2> DEFINE v == [k \in Held(b) |-> Shares(b.lots[k]) * rows[k].dividend]
  <2>1. ASSUME NEW k \in Held(b) PROVE v[k] \in Nat
    <3>1. Shares(b.lots[k]) \in Nat
      BY <1>2, LotsTyped
    <3>2. rows[k].dividend \in Nat
      BY DEF Covered, Loaded, PriceRow
    <3> QED BY <3>1, <3>2
  <2>2. x = SumFunction(v)
    BY DEF Income
  <2>3. IsFiniteSet(Held(b))
    BY <1>2, KeyFinite, FS_Subset
  <2>4. DOMAIN v = Held(b) /\ v = [k \in DOMAIN v |-> v[k]]
    OBVIOUS
  <2> HIDE DEF v
  <2> QED BY <2>1, <2>2, <2>3, <2>4, SumNat
<1>4. CASE ~(x > 0)
  <2>1. WithIncome(b, rows) = b
    BY <1>4 DEF WithIncome, Paid
  <2> QED BY <2>1 DEF Frame
<1>5. CASE x > 0
  <2> DEFINE m == [b EXCEPT !.cash = @ + x, !.income = @ + x]
  <2>1. WithIncome(b, rows) = SyncTax(m)
    BY <1>5 DEF WithIncome, Paid
  <2>2. b.cash + x \in Int /\ b.income + x \in Nat
    BY <1>2, <1>3
  <2>3. /\ m \in Book /\ m.cash = b.cash + x /\ m.income = b.income + x
        /\ m.terms = b.terms /\ m.lots = b.lots /\ m.mark = b.mark
        /\ m.short = b.short /\ m.long = b.long /\ m.tax = b.tax
        /\ m.curve = b.curve /\ m.last = b.last /\ m.refused = b.refused
    BY <1>1, <2>2 DEF Book
  <2> HIDE DEF m
  <2>4. TaxesDue(m) = Owed(b.terms, b.short, b.long, b.income + x)
    BY <2>3 DEF TaxesDue, Owed
  <2>5. Owed(b.terms, b.short, b.long, b.income + x) <= TaxesDue(b) + x
        /\ Owed(b.terms, b.short, b.long, b.income + x) \in Nat
    <3> PICK z \in Nat : z = 0
      OBVIOUS
    <3>1. z \in Int /\ z <= z /\ z + z <= z
      OBVIOUS
    <3>2. /\ Owed(b.terms, b.short, b.long, b.income) \in Nat
          /\ Owed(b.terms, b.short + z, b.long + z, b.income + x) \in Nat
          /\ Owed(b.terms, b.short + z, b.long + z, b.income + x)
               <= Owed(b.terms, b.short, b.long, b.income) + z + x
      BY <1>2, <1>3, <3>1, OwedGrows
    <3>3. b.short + z = b.short /\ b.long + z = b.long
      BY <1>2
    <3> QED BY <1>2, <1>3, <3>2, <3>3
  <2>6. TaxesDue(m) <= m.cash + m.tax
    BY <1>2, <1>3, <2>3, <2>4, <2>5 DEF Sound
  <2>7. Adds(m)
    <3> PICK cash, tax, cost, capital \in Int :
          cash = b.cash /\ tax = b.tax /\ cost = AtCost(b.lots) /\ capital = Capital
      BY <1>2, TradingBookAssumption
    <3> PICK short, long, income \in Int : short = b.short /\ long = b.long /\ income = b.income
      BY <1>2
    <3>1. cash + cost = capital + short + long + income - tax
      BY DEF Sound, Adds
    <3>2. (cash + x) + cost = capital + short + long + (income + x) - tax
      BY ONLY <3>1, cash \in Int, tax \in Int, cost \in Int, capital \in Int,
              short \in Int, long \in Int, income \in Int, x \in Nat, <1>3
    <3> QED BY <2>3, <3>2 DEF Adds
  <2>8. LET c == SyncTax(m)
        IN  /\ Sound(c) /\ Frame(m, c) /\ c.refused = m.refused
            /\ c.lots = m.lots /\ c.mark = m.mark /\ c.marked = m.marked
    BY <2>3, <2>6, <2>7, SyncSound
  <2> QED BY <2>1, <2>3, <2>8 DEF Frame, Covered, Held
<1> QED BY <1>4, <1>5

LEMMA ValuedIs ==
  ASSUME NEW s \in Marks, NEW t \in Marks
  PROVE  Valued(s, t) \in Marks /\ DOMAIN Valued(s, t) = (DOMAIN s) \cup DOMAIN t
<1>1. /\ DOMAIN s \in SUBSET Key /\ s \in [DOMAIN s -> Nat]
      /\ DOMAIN t \in SUBSET Key /\ t \in [DOMAIN t -> Nat]
  BY MarksAre
<1>2. /\ DOMAIN Valued(s, t) = (DOMAIN s) \cup DOMAIN t
      /\ Valued(s, t) \in [DOMAIN Valued(s, t) -> Nat]
  BY <1>1 DEF Valued
<1> QED BY <1>1, <1>2, MarksAre

\* A book between two operations: every position has a mark.
MarkedBook(b, loaded) == Sound(b) /\ Held(b) \subseteq loaded /\ Held(b) \subseteq DOMAIN b.mark

LEMMA MarkedSound ==
  ASSUME NEW b, Sound(b), NEW loaded, NEW rows, Loaded(loaded, rows), Covered(b, loaded, rows),
         NEW day \in Nat
  PROVE  LET c == Marked(b, day, rows)
         IN  MarkedBook(c, loaded) /\ Frame(b, c) /\ c.refused = b.refused
<1> DEFINE c == Marked(b, day, rows)
           closes == [k \in Quoted(rows) |-> rows[k].close]
           days == [k \in Quoted(rows) |-> day]
           mark == Valued(b.mark, closes)
           marked == Valued(b.marked, days)
<1>1. b \in Book
  BY DEF Sound
<1>2. b.lots \in Lots /\ Held(b) = DOMAIN b.lots /\ b.mark \in Marks /\ b.marked \in Marks
  BY <1>1, BookIs
<1>3. Quoted(rows) \in SUBSET Key /\ \A k \in Quoted(rows) : rows[k].close \in Nat
  BY DEF Quoted, Loaded, PriceRow
<1>4. /\ DOMAIN closes = Quoted(rows) /\ closes \in [Quoted(rows) -> Nat]
      /\ DOMAIN days = Quoted(rows) /\ days \in [Quoted(rows) -> Nat]
  BY <1>3
<1>5. closes \in Marks /\ days \in Marks
  <2> HIDE DEF closes, days
  <2> QED BY <1>3, <1>4, MarksAre
<1>6. /\ mark \in Marks /\ DOMAIN mark = (DOMAIN b.mark) \cup Quoted(rows) /\ marked \in Marks
  <2> HIDE DEF closes, days
  <2>1. PICK m, n \in Marks : m = b.mark /\ n = b.marked
    BY <1>2
  <2>2. PICK q, r \in Marks : q = closes /\ r = days
    BY <1>5
  <2>3. Valued(m, q) \in Marks /\ DOMAIN Valued(m, q) = (DOMAIN m) \cup DOMAIN q
    BY <2>1, <2>2, ValuedIs
  <2>4. Valued(n, r) \in Marks
    BY <2>1, <2>2, ValuedIs
  <2>5. DOMAIN q = Quoted(rows)
    BY <1>4, <2>2
  <2>6. mark = Valued(m, q) /\ marked = Valued(n, r)
    BY <2>1, <2>2
  <2> QED BY <2>1, <2>3, <2>4, <2>5, <2>6
<1>7. Repositioned(c, b, b.lots, mark, marked)
  <2>1. c = [b EXCEPT !.mark = mark, !.marked = marked]
    BY DEF Marked
  <2> HIDE DEF mark, marked, c
  <2> QED BY <1>1, <2>1 DEF Book, Repositioned
<1> HIDE DEF mark, marked, c
<1>8. Sound(c) /\ Frame(b, c) /\ c.refused = b.refused /\ c.mark = mark /\ Held(c) = Held(b)
  BY <1>2, <1>6, <1>7, LotsSound
<1> QED BY <1>6, <1>8 DEF Covered, MarkedBook, c

LEMMA SessionSound ==
  ASSUME NEW b, NEW loaded, MarkedBook(b, loaded), NEW rows, Loaded(loaded, rows),
         NEW events \in Seq(Within(loaded)), NEW day \in Nat
  PROVE  LET c == Session(b, day, rows, events)
         IN  Frame(b, c) /\ (~c.refused => MarkedBook(c, loaded))
<1> PICK c1 : c1 = ApplyConversions(b, day, events, rows)
  OBVIOUS
<1>1. Covered(b, loaded, rows)
  BY DEF MarkedBook, Covered
<1>2. Sound(c1) /\ Frame(b, c1) /\ Covered(c1, loaded, rows)
  BY <1>1, ConversionsSound DEF MarkedBook
<1>3. CASE c1.refused
  <2>1. Session(b, day, rows, events) = c1
    BY <1>3 DEF Session, ApplySession
  <2> QED BY <1>2, <1>3, <2>1
<1>4. CASE ~c1.refused
  <2> PICK c2 : c2 = AfterSplits(c1, rows)
    OBVIOUS
  <2> PICK c3 : c3 = WithIncome(c2, rows)
    OBVIOUS
  <2>1. Session(b, day, rows, events) = Marked(c3, day, rows)
    BY <1>4 DEF Session, ApplySession
  <2>2. Sound(c2) /\ Frame(c1, c2) /\ Covered(c2, loaded, rows)
    BY <1>2, SplitsSound
  <2>3. Sound(c3) /\ Frame(c2, c3) /\ Covered(c3, loaded, rows)
    BY <2>2, IncomeSound
  <2>4. LET c == Marked(c3, day, rows)
        IN  MarkedBook(c, loaded) /\ Frame(c3, c)
    BY <2>3, MarkedSound
  <2> QED BY <1>2, <2>1, <2>2, <2>3, <2>4 DEF Frame
<1> QED BY <1>3, <1>4

-----------------------------------------------------------------------------
(* A sale.  After the lots that hold "passed" shares at the cost "cost":   *)
(* what is left still fits in the lots to come, the proceeds are shared in *)
(* proportion, and the gains are the proceeds less what left the position. *)

SaleState(total, net) ==
  [left : Nat, total : {total}, net : {net}, done : Nat, paid : Nat,
   short : Int, long : Int, kept : Seq(Lot)]

Selling(s, total, net, passed, all, cost) ==
  /\ s \in SaleState(total, net)
  /\ s.left + s.done = total
  /\ s.left = 0 \/ s.left + passed <= all
  /\ s.paid = IF total = 0 THEN 0 ELSE (net * s.done) \div total
  /\ s.short + s.long = s.paid - (cost - Basis(s.kept))
  /\ s.short <= s.paid /\ s.long <= s.paid /\ s.short + s.long <= s.paid

LEMMA SaleShares ==
  ASSUME NEW left \in Nat, NEW done \in Nat, NEW total \in Nat, NEW shares \in Nat \ {0},
         NEW passed \in Int, NEW all \in Int, NEW sold \in Nat,
         left + done = total, left = 0 \/ left + passed <= all,
         sold = IF left <= shares THEN left ELSE shares
  PROVE  /\ left - sold \in Nat /\ done + sold \in Nat /\ sold <= shares
         /\ (left - sold) + (done + sold) = total
         /\ left - sold = 0 \/ (left - sold) + (passed + shares) <= all
         /\ sold # 0 => total \in Nat \ {0}
         /\ sold = 0 => left = 0
OBVIOUS

LEMMA SaleGiven ==
  ASSUME NEW net \in Nat, NEW done \in Nat, NEW sold \in Nat, NEW total \in Nat \ {0}
  PROVE  /\ (net * (done + sold)) \div total \in Nat
         /\ (net * done) \div total <= (net * (done + sold)) \div total
<1> PICK x, y \in Nat : x = net * done /\ y = net * (done + sold)
  OBVIOUS
<1>1. x <= y
  <2>1. net * (done + sold) = net * done + net * sold /\ net * sold \in Nat
    OBVIOUS
  <2> QED BY <2>1
<1>2. x \div total <= y \div total /\ y \div total \in Nat
  BY <1>1, DivMono, DivNat
<1> QED BY <1>2

LEMMA SalePart ==
  ASSUME NEW basis \in Nat, NEW shares \in Nat \ {0}, NEW sold \in Nat, sold <= shares
  PROVE  (basis * sold) \div shares \in Nat /\ (basis * sold) \div shares <= basis
<1> PICK z \in Nat : z = basis * sold
  OBVIOUS
<1>1. z <= shares * basis
  <2>1. PICK q \in Nat : shares = sold + q
    <3>1. shares - sold \in Nat /\ shares = sold + (shares - sold)
      OBVIOUS
    <3> QED BY <3>1
  <2>2. (sold + q) * basis = basis * sold + q * basis /\ q * basis \in Nat
    OBVIOUS
  <2> QED BY <2>1, <2>2
<1>2. z \div shares <= basis /\ z \div shares \in Nat
  BY <1>1, DivBound, DivNat
<1> QED BY <1>2

LEMMA SellLotKeeps ==
  ASSUME NEW total \in Nat, NEW net \in Nat, NEW passed \in Int, NEW all \in Int, NEW cost \in Int,
         NEW s, Selling(s, total, net, passed, all, cost), NEW lot \in Lot,
         NEW price, NEW day, NEW terms
  PROVE  Selling(SellLot(s, lot, price, day, terms), total, net,
                 passed + lot.shares, all, cost + lot.basis)
<1> DEFINE r == SellLot(s, lot, price, day, terms)
<1>1. /\ s.left \in Nat /\ s.total = total /\ s.net = net /\ s.done \in Nat /\ s.paid \in Nat
      /\ s.short \in Int /\ s.long \in Int /\ s.kept \in Seq(Lot)
      /\ s.left + s.done = total
      /\ s.left = 0 \/ s.left + passed <= all
      /\ s.paid = IF total = 0 THEN 0 ELSE (net * s.done) \div total
      /\ s.short + s.long = s.paid - (cost - Basis(s.kept))
      /\ s.short <= s.paid /\ s.long <= s.paid /\ s.short + s.long <= s.paid
  BY DEF Selling, SaleState
<1>2. lot.shares \in Nat \ {0} /\ lot.basis \in Nat
  BY DEF Lot
<1>3. PICK left, done, paid \in Nat : left = s.left /\ done = s.done /\ paid = s.paid
  BY <1>1
<1>4. PICK short, long \in Int : short = s.short /\ long = s.long
  BY <1>1
<1>5. PICK kept \in Seq(Lot) : kept = s.kept
  BY <1>1
<1>6. PICK k0 \in Nat : k0 = Basis(kept)
  BY LotsTyped
<1>7. PICK shares \in Nat \ {0} : shares = lot.shares
  BY <1>2
<1>8. PICK basis \in Nat : basis = lot.basis
  BY <1>2
<1>9. PICK sold \in Nat : sold = IF left <= shares THEN left ELSE shares
  OBVIOUS
<1>10. /\ left + done = total /\ (left = 0 \/ left + passed <= all)
       /\ short + long = paid - (cost - k0)
       /\ short <= paid /\ long <= paid /\ short + long <= paid
  BY <1>1, <1>3, <1>4, <1>5, <1>6
<1>11. paid = IF total = 0 THEN 0 ELSE (net * done) \div total
  BY <1>1, <1>3
<1>12. Min({s.left, lot.shares}) = sold
  <2>1. Min({left, shares}) = IF left <= shares THEN left ELSE shares
    BY Lesser
  <2> QED BY <1>3, <1>7, <1>9, <2>1
<1>13. /\ left - sold \in Nat /\ done + sold \in Nat /\ sold <= shares
       /\ (left - sold) + (done + sold) = total
       /\ left - sold = 0 \/ (left - sold) + (passed + shares) <= all
       /\ sold # 0 => total \in Nat \ {0}
       /\ sold = 0 => left = 0
  BY <1>9, <1>10, SaleShares
<1>14. CASE sold = 0
  <2>1. left = 0
    BY <1>13, <1>14
  <2>2. Append(kept, lot) \in Seq(Lot) /\ Basis(Append(kept, lot)) = k0 + basis
    BY <1>6, <1>8, LotsAppend
  <2>3. r = [s EXCEPT !.kept = Append(kept, lot)]
    BY <1>5, <1>12, <1>14 DEF SellLot
  <2> HIDE DEF r
  <2>4. /\ r \in SaleState(total, net) /\ r.left = left /\ r.done = done /\ r.paid = paid
        /\ r.short = short /\ r.long = long /\ r.kept = Append(kept, lot)
    BY <1>3, <1>4, <2>2, <2>3 DEF Selling, SaleState
  <2>5. short + long = paid - ((cost + basis) - (k0 + basis))
    BY <1>10
  <2> QED BY <1>10, <1>11, <2>1, <2>2, <2>4, <2>5, <1>7, <1>8 DEF Selling, r
<1>15. CASE sold # 0
  <2>1. total \in Nat \ {0}
    BY <1>13, <1>15
  <2>2. PICK g \in Nat : g = (net * (done + sold)) \div total
    BY <2>1, SaleGiven
  <2>3. paid <= g
    <3>1. (net * done) \div total <= (net * (done + sold)) \div total
      BY <2>1, SaleGiven
    <3>2. paid = (net * done) \div total
      BY <1>11, <2>1
    <3> QED BY <2>2, <3>1, <3>2
  <2>4. PICK p \in Nat : p = IF sold = shares THEN basis ELSE (basis * sold) \div shares
    BY <1>13, SalePart
  <2>5. p <= basis /\ (sold = shares => p = basis)
    <3>1. (basis * sold) \div shares <= basis
      BY <1>13, SalePart
    <3> QED BY <2>4, <3>1
  <2> DEFINE piece == [lot EXCEPT !.shares = @ - sold, !.basis = @ - p]
             after == IF sold = shares THEN kept ELSE Append(kept, piece)
             term == day - lot.bought >= LongDays
  <2>6. PICK more \in Int : more = (g - paid) - p
    OBVIOUS
  <2>7. after \in Seq(Lot) /\ Basis(after) = k0 + (basis - p)
    <3>1. CASE sold = shares
      <4>1. k0 + (basis - p) = k0
        BY <2>5, <3>1
      <4> QED BY <1>6, <3>1, <4>1
    <3>2. CASE sold # shares
      <4>1. shares - sold \in Nat \ {0} /\ basis - p \in Nat
        BY <1>13, <2>5, <3>2
      <4>2. piece \in Lot /\ piece.basis = basis - p
        BY <1>7, <1>8, <4>1 DEF Lot
      <4> HIDE DEF piece
      <4>3. Append(kept, piece) \in Seq(Lot) /\ Basis(Append(kept, piece)) = k0 + (basis - p)
        BY <1>6, <4>2, LotsAppend
      <4> QED BY <3>2, <4>3
    <3> QED BY <3>1, <3>2
  <2>8. r = [s EXCEPT !.left = left - sold, !.done = done + sold, !.paid = g,
                      !.short = IF term THEN short ELSE short + more,
                      !.long = IF term THEN long + more ELSE long,
                      !.kept = after]
    BY <1>1, <1>3, <1>4, <1>5, <1>7, <1>8, <1>12, <1>15, <2>2, <2>4, <2>6 DEF SellLot
  <2> HIDE DEF after, term, r
  <2>9. PICK x, y : /\ x = IF term THEN short ELSE short + more
                    /\ y = IF term THEN long + more ELSE long
    OBVIOUS
  <2>10. /\ x \in Int /\ y \in Int
         /\ x <= g /\ y <= g /\ x + y <= g
         /\ x + y = g - ((cost + basis) - (k0 + (basis - p)))
    <3>1. (x = short /\ y = long + more) \/ (x = short + more /\ y = long)
      BY <2>9
    <3>2. /\ short \in Int /\ long \in Int /\ paid \in Nat /\ g \in Nat /\ p \in Nat
          /\ k0 \in Nat /\ cost \in Int /\ basis \in Nat /\ more \in Int
          /\ paid <= g /\ short + long = paid - (cost - k0)
          /\ short <= paid /\ long <= paid /\ short + long <= paid
          /\ more = (g - paid) - p
      BY <1>10, <2>3, <2>6
    <3>3. CASE x = short /\ y = long + more
      BY ONLY <3>2, <3>3
    <3>4. CASE x = short + more /\ y = long
      BY ONLY <3>2, <3>4
    <3> QED BY <3>1, <3>3, <3>4
  <2>11. /\ r \in SaleState(total, net) /\ r.left = left - sold /\ r.done = done + sold /\ r.paid = g
         /\ r.short = x /\ r.long = y /\ r.kept = after
    <3>1. r = [s EXCEPT !.left = left - sold, !.done = done + sold, !.paid = g,
                        !.short = x, !.long = y, !.kept = after]
      BY <2>8, <2>9
    <3>2. s \in SaleState(total, net)
      BY DEF Selling
    <3> QED BY <1>13, <2>7, <2>10, <3>1, <3>2 DEF SaleState
  <2>12. g = IF total = 0 THEN 0 ELSE (net * (done + sold)) \div total
    BY <2>1, <2>2
  <2> QED BY <1>7, <1>8, <1>13, <2>7, <2>10, <2>11, <2>12 DEF Selling, r
<1> QED BY <1>14, <1>15

LEMMA DivExact ==
  ASSUME NEW net \in Nat, NEW total \in Nat \ {0}
  PROVE  (net * total) \div total = net
<1>1. PICK a \in Nat : a = net * total
  OBVIOUS
<1>2. PICK q \in Nat : q = a \div total
  BY DivNat
<1>3. total * q <= a /\ a < total * q + total
  BY <1>2, DivNat
<1>4. q <= net
  <2>1. a <= total * net
    BY <1>1
  <2> QED BY <1>2, <2>1, DivBound
<1>5. ~(q < net)
  <2> SUFFICES ASSUME q < net PROVE FALSE
    OBVIOUS
  <2>1. PICK r \in Nat : net = q + 1 + r
    <3>1. net - (q + 1) \in Nat /\ net = q + 1 + (net - (q + 1))
      OBVIOUS
    <3> QED BY <3>1
  <2>2. (q + 1 + r) * total = total * q + total + r * total /\ r * total \in Nat
    OBVIOUS
  <2> QED BY <1>1, <1>3, <2>1, <2>2
<1> QED BY <1>1, <1>2, <1>4, <1>5

Sale(end, net, lots) ==
  /\ end.kept \in Seq(Lot) /\ end.short \in Int /\ end.long \in Int
  /\ end.short <= net /\ end.long <= net /\ end.short + end.long <= net
  /\ end.short + end.long = net - (Basis(lots) - Basis(end.kept))

LEMMA ConsumedIs ==
  ASSUME NEW b, NEW key, NEW lots \in Seq(Lot), b.lots[key] = lots,
         NEW total \in Nat, total <= Shares(lots),
         NEW net \in Nat, total = 0 => net = 0, NEW price, NEW day
  PROVE  Sale(Consumed(b, key, total, price, net, day), net, lots)
<1>1. PICK n \in Nat : n = Len(lots) /\ DOMAIN lots = 1..n
  BY LotsLen
<1>2. PICK f : LotRun(f, n, b, key, total, price, net, day)
  BY <1>1, LotRounds
<1>3. PICK all \in Nat : all = Shares(lots)
  BY LotsTyped
<1> DEFINE Passed(i) == SumOn(SharesOf(lots), 1..i)
           Spend(i) == SumOn(BasisOf(lots), 1..i)
           Good(i) == i <= n => Selling(f[i], total, net, Passed(i), all, Spend(i))
           T == {i \in Nat : Good(i)}
<1>4. 0 \in T
  <2>1. Passed(0) = 0 /\ Spend(0) = 0
    BY SumNone
  <2> DEFINE z == [left |-> total, total |-> total, net |-> net,
                   done |-> 0, paid |-> 0, short |-> 0, long |-> 0, kept |-> <<>>]
  <2>2. f[0] = z
    BY <1>2 DEF LotRun
  <2>3. z \in SaleState(total, net)
    BY NoLots DEF SaleState
  <2>4. 0 = IF total = 0 THEN 0 ELSE (net * 0) \div total
    <3>1. CASE total # 0
      <4>1. net * 0 = 0 * total
        OBVIOUS
      <4>2. (0 * total) \div total = 0
        BY <3>1, DivExact
      <4> QED BY <4>1, <4>2
    <3> QED BY <3>1
  <2>5. Selling(z, total, net, 0, all, 0)
    <3>1. Basis(<<>>) = 0
      BY NoLots
    <3>2. total <= all
      BY <1>3
    <3>3. /\ z.left = total /\ z.done = 0 /\ z.paid = 0 /\ z.short = 0 /\ z.long = 0
          /\ z.kept = <<>>
      OBVIOUS
    <3> QED BY <2>3, <2>4, <3>1, <3>2, <3>3 DEF Selling
  <2> HIDE DEF Passed, Spend, z
  <2> QED BY <2>1, <2>2, <2>5
<1>5. ASSUME NEW i \in Nat, i \in T PROVE i + 1 \in T
  <2> SUFFICES ASSUME i + 1 <= n PROVE Selling(f[i + 1], total, net, Passed(i + 1), all, Spend(i + 1))
    OBVIOUS
  <2>1. i <= n /\ i + 1 \in 1..n /\ i + 1 \in Nat
    OBVIOUS
  <2>2. Selling(f[i], total, net, Passed(i), all, Spend(i))
    BY <1>5, <2>1
  <2>3. /\ lots[i + 1] \in Lot
        /\ SharesOf(lots)[i + 1] = lots[i + 1].shares /\ BasisOf(lots)[i + 1] = lots[i + 1].basis
    BY <1>1, <2>1, LotsAt
  <2>4. \A j \in 1..i + 1 : SharesOf(lots)[j] \in Int /\ BasisOf(lots)[j] \in Int
    <3> TAKE j \in 1..i + 1
    <3>1. j \in 1..Len(lots)
      BY <1>1, <2>1
    <3> QED BY <3>1, LotsAt
  <2>5. Passed(i + 1) = Passed(i) + lots[i + 1].shares /\ Passed(i) \in Int
    BY <2>3, <2>4, SumUpTo
  <2>6. Spend(i + 1) = Spend(i) + lots[i + 1].basis /\ Spend(i) \in Int
    BY <2>3, <2>4, SumUpTo
  <2>7. f[i + 1] = SellLot(f[i], lots[i + 1], price, day, b.terms)
    <3>1. f[i + 1] = SellLot(f[(i + 1) - 1], b.lots[key][i + 1], price, day, b.terms)
      BY <1>2, <2>1 DEF LotRun
    <3>2. (i + 1) - 1 = i
      OBVIOUS
    <3> QED BY <3>1, <3>2
  <2> HIDE DEF Passed, Spend
  <2>8. Selling(SellLot(f[i], lots[i + 1], price, day, b.terms), total, net,
                Passed(i) + lots[i + 1].shares, all, Spend(i) + lots[i + 1].basis)
    BY <2>2, <2>3, <2>5, <2>6, SellLotKeeps
  <2> QED BY <2>5, <2>6, <2>7, <2>8
<1>6. n \in T
  <2> HIDE DEF Good
  <2>1. T \in SUBSET Nat
    OBVIOUS
  <2> HIDE DEF T
  <2>2. T = Nat
    BY <1>4, <1>5, <2>1, Counted
  <2> QED BY <2>2
<1>7. PICK end : end = f[n] /\ end = Consumed(b, key, total, price, net, day)
  BY <1>2 DEF LotRun
<1>8. Selling(end, total, net, Shares(lots), all, Basis(lots))
  <2>1. Passed(n) = Shares(lots) /\ Spend(n) = Basis(lots)
    BY <1>1, LotsSum
  <2>2. Selling(f[n], total, net, Passed(n), all, Spend(n))
    BY <1>6
  <2> HIDE DEF Passed, Spend
  <2> QED BY <1>7, <2>1, <2>2
<1>9. end.left = 0 /\ end.done = total
  <2>1. /\ end.left \in Nat /\ end.done \in Nat /\ end.left + end.done = total
        /\ end.left = 0 \/ end.left + Shares(lots) <= all
    BY <1>8 DEF Selling, SaleState
  <2> QED BY <1>3, <2>1
<1>10. end.paid = net
  <2>1. end.paid = IF total = 0 THEN 0 ELSE (net * end.done) \div total
    BY <1>8 DEF Selling
  <2>2. CASE total = 0
    BY <2>1, <2>2
  <2>3. CASE total # 0
    BY <1>9, <2>1, <2>3, DivExact
  <2> QED BY <2>2, <2>3
<1>11. Sale(end, net, lots)
  BY <1>8, <1>10 DEF Selling, SaleState, Sale
<1> QED BY <1>7, <1>11

Sold(c, b, key, loaded) ==
  Frame(b, c) /\ MarkedBook(c, loaded) /\ Held(b) \ {key} \subseteq Held(c)

\* A sale before the taxes are provided.
Proceeds(c, b, key, net, costs, end) ==
  c = [b EXCEPT !.lots[key] = end.kept, !.cash = @ + net, !.costs = @ + costs,
                !.short = @ + end.short, !.long = @ + end.long]

LEMMA ProceedsAre ==
  ASSUME NEW b, Sound(b), NEW key \in Held(b), NEW net \in Nat, NEW costs \in Nat,
         NEW end, Sale(end, net, b.lots[key]), NEW c, Proceeds(c, b, key, net, costs, end)
  PROVE  /\ c \in Book /\ Adds(c) /\ TaxesDue(c) <= c.cash + c.tax
         /\ Frame(b, c) /\ c.refused = b.refused /\ c.mark = b.mark /\ c.marked = b.marked
         /\ Held(c) = Held(b) /\ c.lots[key] = end.kept
         /\ Basis(end.kept) \in Nat /\ AtCost(c.lots) = AtCost(Without(c.lots, key)) + Basis(end.kept)
<1>1. /\ b \in Book /\ Adds(b) /\ b.tax = TaxesDue(b) /\ b.cash >= 0
  BY DEF Sound
<1>2. /\ b.cash \in Int /\ b.short \in Int /\ b.long \in Int /\ b.income \in Nat
      /\ b.tax \in Nat /\ b.costs \in Nat /\ b.terms \in Rates
      /\ b.lots \in Lots /\ Held(b) = DOMAIN b.lots /\ Held(b) \in SUBSET Key
      /\ b.lots \in [Held(b) -> Seq(Lot)]
      /\ TaxesDue(b) = Owed(b.terms, b.short, b.long, b.income)
  BY <1>1, BookIs
<1>3. PICK kept \in Seq(Lot) : kept = end.kept
  BY DEF Sale
<1>4. PICK s, l \in Int : s = end.short /\ l = end.long
  BY DEF Sale
<1>5. PICK k0, b0 \in Nat : k0 = Basis(kept) /\ b0 = Basis(b.lots[key])
  <2>1. b.lots[key] \in Seq(Lot)
    BY <1>2
  <2> QED BY <2>1, LotsTyped
<1>6. s <= net /\ l <= net /\ s + l <= net /\ s + l = net - (b0 - k0)
  BY <1>3, <1>4, <1>5 DEF Sale
<1>7. PICK t : t = [b.lots EXCEPT ![key] = kept]
  OBVIOUS
<1>8. t \in Lots /\ AtCost(t) = AtCost(Without(b.lots, key)) + k0 /\ DOMAIN t = Held(b) /\ t[key] = kept
  <2>1. Placed(t, b.lots, key, kept)
    BY <1>2, <1>7 DEF Placed
  <2>2. key \in Key
    BY <1>2
  <2>3. t \in Lots /\ AtCost(t) = AtCost(Without(b.lots, key)) + k0
    BY <1>2, <1>5, <2>1, <2>2, CostWith
  <2> QED BY <1>2, <1>7, <2>3
<1>9. Without(t, key) = Without(b.lots, key)
  BY <1>2, <1>7 DEF Without
<1>10. PICK a0, a1 \in Nat : a0 = AtCost(Without(b.lots, key)) /\ a1 = AtCost(b.lots) /\ a1 = a0 + b0
  <2>1. Without(b.lots, key) \in Lots /\ AtCost(b.lots) = AtCost(Without(b.lots, key)) + b0
    BY <1>2, <1>5, CostWithout
  <2> QED BY <1>2, <2>1, CostIs
<1>11. /\ c.lots = t /\ c.cash = b.cash + net /\ c.costs = b.costs + costs
       /\ c.short = b.short + s /\ c.long = b.long + l
       /\ c.terms = b.terms /\ c.income = b.income /\ c.tax = b.tax /\ c.mark = b.mark
       /\ c.marked = b.marked /\ c.last = b.last /\ c.curve = b.curve /\ c.refused = b.refused
  BY <1>1, <1>3, <1>4, <1>7 DEF Proceeds, Book
<1>12. c \in Book
  <2>1. /\ c.cash \in Int /\ c.costs \in Nat /\ c.short \in Int /\ c.long \in Int
    <3>1. \A x, y \in Int : x + y \in Int
      OBVIOUS
    <3>2. \A x, y \in Nat : x + y \in Nat
      OBVIOUS
    <3>3. net \in Int
      OBVIOUS
    <3> QED BY <1>2, <1>4, <1>11, <3>1, <3>2, <3>3
  <2>2. c = [b EXCEPT !.lots = t, !.cash = c.cash, !.costs = c.costs, !.short = c.short,
                      !.long = c.long]
    BY <1>1, <1>3, <1>4, <1>7, <1>11 DEF Proceeds, Book
  <2> QED BY <1>1, <1>8, <2>1, <2>2 DEF Book
<1>13. Adds(c)
  <2>1. b.cash + a1 = Capital + b.short + b.long + b.income - b.tax
    BY <1>1, <1>10 DEF Adds
  <2>2. PICK cash, short, long \in Int : cash = b.cash /\ short = b.short /\ long = b.long
    BY <1>2
  <2>3. PICK income, tax \in Nat : income = b.income /\ tax = b.tax
    BY <1>2
  <2>4. cash + a1 = Capital + short + long + income - tax
    BY <2>1, <2>2, <2>3
  <2>5. (cash + net) + (a0 + k0) = Capital + (short + s) + (long + l) + income - tax
    <3>1. s + l = net - (b0 - k0) /\ a1 = a0 + b0 /\ Capital \in Nat
      BY <1>6, <1>10, TradingBookAssumption
    <3>2. /\ net \in Nat /\ s \in Int /\ l \in Int /\ b0 \in Nat /\ k0 \in Nat
          /\ a0 \in Nat /\ a1 \in Nat
      BY <1>4, <1>5, <1>10
    <3>3. cash \in Int /\ short \in Int /\ long \in Int /\ income \in Nat /\ tax \in Nat
      BY <2>2, <2>3
    <3> QED BY ONLY <2>4, <3>1, <3>2, <3>3
  <2>6. c.cash = cash + net /\ c.short = short + s /\ c.long = long + l /\ c.income = income /\ c.tax = tax
    BY <1>11, <2>2, <2>3
  <2>7. AtCost(c.lots) = a0 + k0
    BY <1>8, <1>10, <1>11
  <2> QED BY <2>5, <2>6, <2>7 DEF Adds
<1>14. TaxesDue(c) <= c.cash + c.tax
  <2>1. TaxesDue(c) = Owed(b.terms, b.short + s, b.long + l, b.income + 0)
    <3>1. TaxesDue(c) = Owed(c.terms, c.short, c.long, c.income)
      BY <1>12, BookIs
    <3>2. b.income + 0 = b.income
      BY <1>2
    <3> QED BY <1>11, <3>1, <3>2
  <2>2. /\ Owed(b.terms, b.short + s, b.long + l, b.income + 0) \in Nat
        /\ Owed(b.terms, b.short + s, b.long + l, b.income + 0)
             <= Owed(b.terms, b.short, b.long, b.income) + net + 0
    BY <1>2, <1>6, OwedGrows
  <2>3. Owed(b.terms, b.short, b.long, b.income) = b.tax
    BY <1>1, <1>2
  <2>4. PICK w \in Nat : w = Owed(b.terms, b.short + s, b.long + l, b.income + 0)
    BY <2>2
  <2>5. w <= b.tax + net + 0
    BY <2>2, <2>3, <2>4
  <2>6. w <= (b.cash + net) + b.tax
    BY <1>1, <1>2, <2>5
  <2> QED BY <1>11, <2>1, <2>4, <2>6
<1> QED BY <1>3, <1>5, <1>8, <1>9, <1>10, <1>11, <1>12, <1>13, <1>14 DEF Frame, Held

LEMMA SettleSound ==
  ASSUME NEW b, NEW loaded, MarkedBook(b, loaded), NEW key \in Held(b),
         NEW shares \in Nat, shares <= Shares(b.lots[key]),
         NEW price \in Nat, NEW costs \in Nat, NEW day
  PROVE  Sold(Settle(b, key, shares, price, costs, day), b, key, loaded)
<1>1. Sound(b) /\ b \in Book
  BY DEF MarkedBook, Sound
<1>2. b.lots[key] \in Seq(Lot)
  BY <1>1, BookIs
<1>3. PICK worth \in Nat : worth = shares * price
  OBVIOUS
<1>4. CASE costs > worth
  <2>1. Settle(b, key, shares, price, costs, day) = Refused(b)
    BY <1>3, <1>4 DEF Settle
  <2> QED BY <1>1, <2>1, RefusedSound DEF MarkedBook, Sold, Held
<1>5. CASE ~(costs > worth)
  <2>1. PICK net \in Nat : net = worth - costs
    BY <1>5
  <2>2. shares = 0 => net = 0
    <3>1. shares = 0 => worth = 0
      BY <1>3
    <3> QED BY <1>5, <2>1, <3>1
  <2>3. PICK end : end = Consumed(b, key, shares, price, net, day)
    OBVIOUS
  <2>4. Sale(end, net, b.lots[key])
    BY <1>2, <2>2, <2>3, ConsumedIs
  <2>5. PICK c : Proceeds(c, b, key, net, costs, end)
    BY DEF Proceeds
  <2>6. /\ c \in Book /\ Adds(c) /\ TaxesDue(c) <= c.cash + c.tax
        /\ Frame(b, c) /\ c.mark = b.mark /\ c.marked = b.marked
        /\ Held(c) = Held(b) /\ c.lots[key] = end.kept
        /\ Basis(end.kept) \in Nat /\ AtCost(c.lots) = AtCost(Without(c.lots, key)) + Basis(end.kept)
    BY <1>1, <2>4, <2>5, ProceedsAre
  <2>7. PICK d : d = SyncTax(c)
    OBVIOUS
  <2>8. Sound(d) /\ Frame(c, d) /\ d.lots = c.lots /\ d.mark = c.mark /\ d.marked = c.marked
    BY <2>6, <2>7, SyncSound
  <2>9. Settle(b, key, shares, price, costs, day) = Emptied(d, key)
    <3>1. Settle(b, key, shares, price, costs, day)
            = Emptied(Booked(b, key, shares * price - costs, costs,
                  Consumed(b, key, shares, price, shares * price - costs, day)), key)
      BY <1>3, <1>5 DEF Settle
    <3>2. shares * price - costs = net
      BY <1>3, <2>1
    <3>3. Booked(b, key, net, costs, end) = d
      BY <2>5, <2>7 DEF Booked, Proceeds
    <3> QED BY <2>3, <3>1, <3>2, <3>3
  <2>10. Frame(b, d) /\ Held(d) = Held(b) /\ Held(d) \subseteq loaded /\ Held(d) \subseteq DOMAIN d.mark
    BY <2>6, <2>8 DEF Frame, MarkedBook, Held
  <2>11. CASE d.lots[key] # <<>>
    <3>1. Emptied(d, key) = d
      BY <2>11 DEF Emptied
    <3> QED BY <2>8, <2>9, <2>10, <3>1 DEF Sold, MarkedBook
  <2>12. CASE d.lots[key] = <<>>
    <3>1. PICK e : e = Emptied(d, key)
      OBVIOUS
    <3>2. d.lots \in Lots /\ d.mark \in Marks /\ d.marked \in Marks /\ d \in Book
      BY <2>8, BookIs DEF Sound
    <3>3. Repositioned(e, d, Without(d.lots, key), Without(d.mark, key), Without(d.marked, key))
      BY <2>12, <3>1, <3>2 DEF Emptied, Repositioned, Book
    <3>4. /\ Without(d.mark, key) \in Marks /\ DOMAIN Without(d.mark, key) = (DOMAIN d.mark) \ {key}
          /\ Without(d.marked, key) \in Marks
      BY <3>2, WithoutMark
    <3>5. /\ Without(d.lots, key) \in Lots /\ DOMAIN Without(d.lots, key) = (DOMAIN d.lots) \ {key}
      BY <3>2, CostWithout
    <3>6. AtCost(Without(d.lots, key)) = AtCost(d.lots)
      <4>1. Basis(end.kept) = 0
        BY <2>6, <2>8, <2>12, NoLots
      <4>2. AtCost(Without(d.lots, key)) \in Nat
        BY <3>5, CostIs
      <4>3. AtCost(d.lots) = AtCost(Without(d.lots, key)) + 0
        BY <2>6, <2>8, <4>1
      <4> QED BY <4>2, <4>3
    <3>7. /\ Sound(e) /\ Frame(d, e) /\ e.mark = Without(d.mark, key)
          /\ Held(e) = (DOMAIN d.lots) \ {key}
      BY <2>8, <3>3, <3>4, <3>5, <3>6, LotsSound
    <3>8. Frame(b, e)
      BY <2>10, <3>7 DEF Frame
    <3>9. Held(e) = Held(b) \ {key} /\ Held(e) \subseteq loaded /\ Held(e) \subseteq DOMAIN e.mark
      BY <2>10, <3>4, <3>7 DEF Held
    <3> QED BY <2>9, <3>1, <3>7, <3>8, <3>9 DEF Sold, MarkedBook
  <2> QED BY <2>11, <2>12
<1> QED BY <1>4, <1>5

LEMMA CostNat ==
  ASSUME NEW terms \in Rates, NEW notional \in Nat
  PROVE  Cost(terms, notional) \in Nat
<1>1. PICK x \in Nat : x = notional * terms.bps
  BY DEF Rates
<1>2. x \div 10000 \in Nat /\ terms.fee \in Nat
  BY DivNat DEF Rates
<1> QED BY <1>1, <1>2 DEF Cost

LEMMA SellSound ==
  ASSUME NEW b, NEW loaded, MarkedBook(b, loaded), NEW key \in Held(b),
         NEW wanted \in Nat, NEW price \in Nat \ {0}, NEW day
  PROVE  Sold(Sell(b, key, wanted, price, day), b, key, loaded)
<1>1. Sound(b) /\ b \in Book
  BY DEF MarkedBook, Sound
<1>2. PICK most \in Nat : most = Shares(b.lots[key])
  <2>1. b.lots[key] \in Seq(Lot)
    BY <1>1, BookIs
  <2> QED BY <2>1, LotsTyped
<1>3. PICK most2 \in Nat : most2 = wanted \div price
  BY DivNat
<1>4. PICK shares \in Nat : shares = Min({most2, most})
  BY Lesser
<1>5. shares <= most
  BY <1>4, Lesser
<1>6. PICK worth \in Nat : worth = shares * price
  OBVIOUS
<1>7. PICK costs \in Nat : costs = Cost(b.terms, shares * price)
  <2>1. b.terms \in Rates
    BY <1>1, BookIs
  <2> QED BY <1>6, <2>1, CostNat
<1>8. Sold(Settle(b, key, shares, price, costs, day), b, key, loaded)
  BY <1>2, <1>5, SettleSound
<1> QED BY <1>2, <1>3, <1>4, <1>7, <1>8 DEF Sell, SellShares

LEMMA SellAllSound ==
  ASSUME NEW b, NEW loaded, MarkedBook(b, loaded), NEW rows, Loaded(loaded, rows),
         \A k \in Held(b) : Priced(rows[k]), NEW over, over \in [Held(b) -> Int], NEW day
  PROVE  LET c == SellAll(b, over, rows, day)
         IN  Frame(b, c) /\ MarkedBook(c, loaded)
<1>1. Sound(b) /\ b \in Book /\ Held(b) \in SUBSET Key /\ Held(b) \subseteq loaded
  BY BookIs DEF MarkedBook, Sound
<1>2. PICK S : S = {k \in DOMAIN over : over[k] >= rows[k].close}
  OBVIOUS
<1>3. S \subseteq Held(b) /\ S \in SUBSET Key
  BY <1>1, <1>2
<1>4. \A k \in S : /\ over[k] \in Nat /\ rows[k].close \in Nat \ {0}
  <2> TAKE k \in S
  <2>1. k \in Held(b) /\ k \in loaded /\ over[k] \in Int /\ over[k] >= rows[k].close
    BY <1>1, <1>2, <1>3
  <2>2. rows[k].close \in Nat /\ rows[k].close > 0
    BY <2>1 DEF Loaded, PriceRow, Priced
  <2>3. PICK x \in Int : x = over[k]
    BY <2>1
  <2>4. PICK y \in Nat : y = rows[k].close
    BY <2>2
  <2>5. x \in Nat /\ y \in Nat \ {0}
    BY <2>1, <2>2, <2>3, <2>4
  <2> QED BY <2>3, <2>4, <2>5
<1>5. PICK keys : keys = InKeyOrder(S)
  OBVIOUS
<1>6. Listing(keys, S)
  BY <1>3, <1>5, KeysListed
<1>7. PICK n \in Nat : n = Len(keys) /\ DOMAIN keys = 1..n
  BY <1>6 DEF Listing
<1>8. PICK f : SaleRun(f, n, b, over, rows, day, keys)
  <2>1. keys = InKeyOrder({k \in DOMAIN over : over[k] >= rows[k].close})
    BY <1>2, <1>5
  <2> QED BY <1>7, <2>1, SaleRounds
<1> DEFINE Good(i) == i <= n => /\ Frame(b, f[i]) /\ MarkedBook(f[i], loaded)
                                /\ Held(b) \ {keys[j] : j \in 1..i} \subseteq Held(f[i])
           T == {i \in Nat : Good(i)}
<1>9. 0 \in T
  <2>1. f[0] = b
    BY <1>8 DEF SaleRun
  <2> QED BY <2>1 DEF Frame
<1>10. ASSUME NEW i \in Nat, i \in T PROVE i + 1 \in T
  <2> SUFFICES ASSUME i + 1 <= n
               PROVE  /\ Frame(b, f[i + 1]) /\ MarkedBook(f[i + 1], loaded)
                      /\ Held(b) \ {keys[j] : j \in 1..i + 1} \subseteq Held(f[i + 1])
    OBVIOUS
  <2>1. i <= n /\ i + 1 \in 1..n /\ (i + 1) - 1 = i
    OBVIOUS
  <2>2. PICK c : c = f[i]
    OBVIOUS
  <2>3. /\ Frame(b, c) /\ MarkedBook(c, loaded)
        /\ Held(b) \ {keys[j] : j \in 1..i} \subseteq Held(c)
    BY <1>10, <2>1, <2>2
  <2>4. PICK k \in S : k = keys[i + 1]
    BY <1>6, <1>7, <2>1 DEF Listing
  <2>5. f[i + 1] = IF c.refused THEN c ELSE Sell(c, k, over[k], rows[k].close, day)
    BY <1>8, <2>1, <2>2, <2>4 DEF SaleRun
  <2>6. k \in Held(c)
    <3>1. \A j \in 1..i : keys[j] # k
      BY <1>6, <1>7, <2>1, <2>4 DEF Listing
    <3> QED BY <1>3, <2>3, <2>4, <3>1
  <2>7. k \in {keys[j] : j \in 1..i + 1} /\ {keys[j] : j \in 1..i} \subseteq {keys[j] : j \in 1..i + 1}
    <3>1. i + 1 \in 1..i + 1 /\ \A j \in 1..i : j \in 1..i + 1
      OBVIOUS
    <3> QED BY <2>4, <3>1
  <2>8. CASE c.refused
    BY <2>3, <2>5, <2>7, <2>8
  <2>9. CASE ~c.refused
    <3>1. Sold(f[i + 1], c, k, loaded)
      <4>1. over[k] \in Nat /\ rows[k].close \in Nat \ {0}
        BY <1>4
      <4> QED BY <2>3, <2>5, <2>6, <2>9, <4>1, SellSound
    <3> QED BY <2>3, <2>7, <3>1 DEF Sold, Frame
  <2> QED BY <2>8, <2>9
<1>11. n \in T
  <2> HIDE DEF Good
  <2>1. T \in SUBSET Nat
    OBVIOUS
  <2> HIDE DEF T
  <2>2. T = Nat
    BY <1>9, <1>10, <2>1, Counted
  <2> QED BY <2>2
<1>12. SellAll(b, over, rows, day) = f[n]
  BY <1>8 DEF SaleRun
<1> QED BY <1>11, <1>12

LEMMA BuySound ==
  ASSUME NEW b, NEW loaded \in SUBSET Key, MarkedBook(b, loaded), NEW key \in loaded,
         NEW wanted \in Nat, NEW price \in Nat \ {0}, NEW day \in Nat
  PROVE  LET c == Buy(b, key, wanted, price, day)
         IN  Frame(b, c) /\ MarkedBook(c, loaded)
<1>1. /\ Sound(b) /\ b \in Book /\ Adds(b) /\ b.tax = TaxesDue(b) /\ b.cash >= 0
  BY DEF MarkedBook, Sound
<1>2. /\ b.cash \in Int /\ b.costs \in Nat /\ b.terms \in Rates
      /\ b.lots \in Lots /\ Held(b) = DOMAIN b.lots /\ Held(b) \in SUBSET Key
      /\ b.lots \in [Held(b) -> Seq(Lot)] /\ b.mark \in Marks /\ b.marked \in Marks
      /\ TaxesDue(b) = Owed(b.terms, b.short, b.long, b.income)
  BY <1>1, BookIs
<1>3. PICK shares \in Nat : shares = wanted \div price
  BY DivNat
<1>4. PICK worth \in Nat : worth = shares * price
  OBVIOUS
<1>5. PICK costs \in Nat : costs = Cost(b.terms, worth)
  BY <1>2, CostNat
<1>6. PICK spent \in Nat : spent = worth + costs
  OBVIOUS
<1>7. PICK c : c = Buy(b, key, wanted, price, day)
  OBVIOUS
<1>8. c = BuyShares(b, key, shares, price, costs, day)
  BY <1>3, <1>4, <1>5, <1>7 DEF Buy
<1>9. CASE spent > b.cash \/ shares = 0
  <2>1. c = Refused(b)
    BY <1>4, <1>6, <1>8, <1>9 DEF BuyShares
  <2> QED BY <1>1, <1>7, <2>1, RefusedSound DEF MarkedBook, Held
<1>10. CASE ~(spent > b.cash \/ shares = 0)
  <2>1. PICK lot \in Lot : lot = [shares |-> shares, basis |-> spent, bought |-> day]
    BY <1>10 DEF Lot
  <2>2. PICK lots \in Seq(Lot) : lots = LotsOf(b, key)
    BY <1>2, NoLots DEF LotsOf
  <2>3. PICK more \in Seq(Lot) : more = Append(lots, lot) /\ Basis(more) = Basis(lots) + spent
    <3>1. lot.basis = spent
      BY <2>1
    <3> QED BY <3>1, LotsAppend
  <2>4. PICK t : t = [k \in (DOMAIN b.lots) \cup {key} |-> IF k = key THEN more ELSE b.lots[k]]
    OBVIOUS
  <2>5. t \in Lots /\ AtCost(t) = AtCost(Without(b.lots, key)) + Basis(more)
    <3>1. Placed(t, b.lots, key, more) /\ key \in Key
      BY <2>4 DEF Placed
    <3> QED BY <1>2, <3>1, CostWith
  <2>6. PICK a0, a1 \in Nat : a0 = AtCost(b.lots) /\ a1 = AtCost(t)
    BY <1>2, <2>5, CostIs
  <2>7. a1 = a0 + spent
    <3>1. AtCost(Without(b.lots, key)) + Basis(lots) = a0 /\ AtCost(Without(b.lots, key)) \in Nat
      <4>1. /\ Without(b.lots, key) \in Lots
            /\ key \in DOMAIN b.lots => AtCost(b.lots) = AtCost(Without(b.lots, key)) + Basis(b.lots[key])
            /\ key \notin DOMAIN b.lots => AtCost(b.lots) = AtCost(Without(b.lots, key))
        BY <1>2, CostWithout
      <4>2. PICK w \in Nat : w = AtCost(Without(b.lots, key))
        BY <4>1, CostIs
      <4>3. CASE key \in DOMAIN b.lots
        <5>1. lots = b.lots[key]
          BY <2>2, <4>3 DEF LotsOf, Held
        <5> QED BY <2>6, <4>1, <4>2, <4>3, <5>1
      <4>4. CASE key \notin DOMAIN b.lots
        <5>1. lots = <<>>
          BY <2>2, <4>4 DEF LotsOf, Held
        <5>2. Basis(lots) = 0 /\ w + 0 = w
          BY <5>1, NoLots, <4>2
        <5> QED BY <2>6, <4>1, <4>2, <4>4, <5>2
      <4> QED BY <4>3, <4>4
    <3>2. PICK w, y \in Nat : w = AtCost(Without(b.lots, key)) /\ y = Basis(lots)
      BY <3>1, LotsTyped
    <3>3. a1 = w + (y + spent) /\ w + y = a0
      BY <2>3, <2>5, <2>6, <3>1, <3>2
    <3>4. w \in Nat /\ y \in Nat /\ a0 \in Nat /\ a1 \in Nat
      BY <2>6, <3>2
    <3> QED BY ONLY <3>3, <3>4, <1>6, spent \in Nat
  <2>8. PICK mark \in Marks : /\ mark = Valued(b.mark, [k \in {key} |-> price])
                              /\ DOMAIN mark = (DOMAIN b.mark) \cup {key}
    <3>1. PICK q : q = [k \in {key} |-> price]
      OBVIOUS
    <3>2. q \in Marks /\ DOMAIN q = {key}
      BY <3>1, MarksAre
    <3>3. PICK m \in Marks : m = b.mark
      BY <1>2
    <3>4. Valued(m, q) \in Marks /\ DOMAIN Valued(m, q) = (DOMAIN m) \cup DOMAIN q
      BY <3>2, <3>3, ValuedIs
    <3> QED BY <3>1, <3>2, <3>3, <3>4
  <2>9. PICK marked \in Marks : marked = Valued(b.marked, [k \in {key} |-> day])
    <3>1. [k \in {key} |-> day] \in Marks
      BY MarksAre
    <3> QED BY <1>2, <3>1, ValuedIs
  <2>10. PICK cash, left \in Int : cash = b.cash /\ left = b.cash - spent
    <3>1. PICK cash \in Int : cash = b.cash
      BY <1>2
    <3>2. PICK left \in Int : left = cash - spent
      BY <3>1, <1>6
    <3> QED BY <3>1, <3>2
  <2>11. PICK paid \in Nat : paid = b.costs + costs
    BY <1>2, <1>5
  <2>12. c = [b EXCEPT !.cash = left, !.costs = paid, !.mark = mark, !.marked = marked, !.lots = t]
    <3>1. shares * price + costs = spent
      BY <1>4, <1>6
    <3>2. c = WithLots([b EXCEPT !.cash = @ - spent, !.costs = @ + costs,
                          !.mark = Valued(@, [k \in {key} |-> price]),
                          !.marked = Valued(@, [k \in {key} |-> day])],
                key, more)
      BY <1>8, <1>10, <2>1, <2>2, <2>3, <3>1 DEF BuyShares
    <3>3. PICK d : d = [b EXCEPT !.cash = @ - spent, !.costs = @ + costs,
                          !.mark = Valued(@, [k \in {key} |-> price]),
                          !.marked = Valued(@, [k \in {key} |-> day])]
      OBVIOUS
    <3>4. d = [b EXCEPT !.cash = left, !.costs = paid, !.mark = mark, !.marked = marked]
      BY <1>1, <2>8, <2>9, <2>10, <2>11, <3>3 DEF Book
    <3>5. d.lots = b.lots
      BY <1>1, <3>4 DEF Book
    <3>6. c = [d EXCEPT !.lots = t]
      BY <2>4, <3>2, <3>3, <3>5 DEF WithLots
    <3> QED BY <1>1, <3>4, <3>6 DEF Book
  <2>13. c \in Book
    BY <1>1, <2>5, <2>8, <2>9, <2>10, <2>11, <2>12 DEF Book
  <2>14. /\ c.cash = left /\ c.lots = t /\ c.mark = mark
         /\ c.terms = b.terms /\ c.short = b.short /\ c.long = b.long /\ c.income = b.income
         /\ c.tax = b.tax /\ c.curve = b.curve /\ c.last = b.last
    BY <1>1, <2>12 DEF Book
  <2>15. TaxesDue(c) = TaxesDue(b)
    BY <1>2, <2>13, <2>14, BookIs
  <2>16. left >= 0 /\ left = cash - spent
    <3>1. ~(spent > cash)
      BY <1>10, <2>10
    <3> QED BY <2>10, <3>1
  <2>17. left + a1 = cash + a0
    BY <2>6, <2>7, <2>10, <2>16
  <2>18. Adds(c)
    BY <1>1, <2>6, <2>10, <2>14, <2>17 DEF Adds
  <2>19. Sound(c)
    BY <1>1, <2>13, <2>14, <2>15, <2>16, <2>18 DEF Sound
  <2>20. Held(c) = Held(b) \cup {key}
    BY <2>4, <2>14 DEF Held
  <2>21. Held(c) \subseteq loaded /\ Held(c) \subseteq DOMAIN c.mark
    BY <2>8, <2>14, <2>20 DEF MarkedBook
  <2> QED BY <1>7, <2>14, <2>19, <2>21 DEF MarkedBook, Frame
<1> QED BY <1>9, <1>10

LEMMA BuyScaledSound ==
  ASSUME NEW b, NEW loaded \in SUBSET Key, MarkedBook(b, loaded), NEW rows, Loaded(loaded, rows),
         NEW S \in SUBSET loaded, \A k \in S : Priced(rows[k]),
         NEW amounts, amounts \in [S -> Nat], NEW day \in Nat
  PROVE  LET c == BuyScaled(b, amounts, rows, day)
         IN  Frame(b, c) /\ MarkedBook(c, loaded)
<1>1. \A k \in S : amounts[k] \in Nat /\ rows[k].close \in Nat \ {0}
  <2> TAKE k \in S
  <2>1. rows[k].close \in Nat /\ rows[k].close > 0
    BY DEF Loaded, PriceRow, Priced
  <2> QED BY <2>1
<1>2. PICK keys : keys = InKeyOrder(DOMAIN amounts)
  OBVIOUS
<1>3. Listing(keys, S)
  <2>1. DOMAIN amounts = S /\ S \in SUBSET Key
    OBVIOUS
  <2> QED BY <1>2, <2>1, KeysListed
<1>4. PICK n \in Nat : n = Len(keys) /\ DOMAIN keys = 1..n
  BY <1>3 DEF Listing
<1>5. PICK f : PurchaseRun(f, n, b, amounts, rows, day, keys)
  BY <1>2, <1>4, PurchaseRounds
<1> DEFINE Good(i) == i <= n => Frame(b, f[i]) /\ MarkedBook(f[i], loaded)
           T == {i \in Nat : Good(i)}
<1>6. 0 \in T
  <2>1. f[0] = b
    BY <1>5 DEF PurchaseRun
  <2> QED BY <2>1 DEF Frame
<1>7. ASSUME NEW i \in Nat, i \in T PROVE i + 1 \in T
  <2> SUFFICES ASSUME i + 1 <= n
               PROVE  Frame(b, f[i + 1]) /\ MarkedBook(f[i + 1], loaded)
    OBVIOUS
  <2>1. i <= n /\ i + 1 \in 1..n /\ (i + 1) - 1 = i
    OBVIOUS
  <2>2. PICK c : c = f[i]
    OBVIOUS
  <2>3. Frame(b, c) /\ MarkedBook(c, loaded)
    BY <1>7, <2>1, <2>2
  <2>4. PICK k \in S : k = keys[i + 1]
    BY <1>3, <1>4, <2>1 DEF Listing
  <2>5. f[i + 1] = IF c.refused THEN c ELSE Buy(c, k, amounts[k], rows[k].close, day)
    BY <1>5, <2>1, <2>2, <2>4 DEF PurchaseRun
  <2>6. CASE c.refused
    BY <2>3, <2>5, <2>6
  <2>7. CASE ~c.refused
    <3>1. PICK wanted \in Nat : wanted = amounts[k]
      BY <1>1
    <3>2. PICK price \in Nat \ {0} : price = rows[k].close
      BY <1>1
    <3>3. PICK d : d = Buy(c, k, wanted, price, day)
      OBVIOUS
    <3>4. k \in loaded
      OBVIOUS
    <3>5. Frame(c, d) /\ MarkedBook(d, loaded)
      BY <2>3, <3>1, <3>2, <3>3, <3>4, BuySound
    <3> QED BY <2>3, <2>5, <2>7, <3>1, <3>2, <3>3, <3>5 DEF Frame
  <2> QED BY <2>6, <2>7
<1>8. n \in T
  <2> HIDE DEF Good
  <2>1. T \in SUBSET Nat
    OBVIOUS
  <2> HIDE DEF T
  <2>2. T = Nat
    BY <1>6, <1>7, <2>1, Counted
  <2> QED BY <2>2
<1>9. PICK e : e = f[n]
  OBVIOUS
<1>10. Frame(b, e) /\ MarkedBook(e, loaded)
  BY <1>8, <1>9
<1>11. BuyScaled(b, amounts, rows, day) = Spent(e)
  BY <1>5, <1>9 DEF PurchaseRun
<1>12. CASE e.cash < 0
  <2>1. Spent(e) = Refused(e)
    BY <1>12 DEF Spent
  <2> QED BY <1>10, <1>11, <2>1, RefusedSound DEF MarkedBook, Held, Frame
<1>13. CASE ~(e.cash < 0)
  <2>1. Spent(e) = e
    BY <1>13 DEF Spent
  <2> QED BY <1>10, <1>11, <2>1
<1> QED BY <1>12, <1>13

LEMMA ScaledNat ==
  ASSUME NEW S \in SUBSET Key, S # {}, NEW missing, missing \in [S -> Nat \ {0}],
         NEW affordable \in Nat
  PROVE  Scaled(missing, SumFunction(missing), affordable) \in [S -> Nat]
<1>1. IsFiniteSet(S) /\ DOMAIN missing = S /\ missing = [k \in S |-> missing[k]]
  BY KeyFinite, FS_Subset
<1>2. SumFunction(missing) = SumOn(missing, S)
  BY <1>1 DEF SumOn
<1>3. PICK a \in S : TRUE
  OBVIOUS
<1>4. \A k \in S : missing[k] \in Int /\ missing[k] \in Nat
  OBVIOUS
<1>5. SumOn(missing, S) = missing[a] + SumOn(missing, S \ {a})
  BY <1>1, <1>4, SumSplit
<1>6. SumOn(missing, S \ {a}) \in Nat
  <2>1. IsFiniteSet(S \ {a}) /\ \A k \in S \ {a} : missing[k] \in Nat
    BY <1>1, FS_Subset
  <2> QED BY <2>1, SumTyped
<1>7. PICK total \in Nat \ {0} : total = SumFunction(missing)
  <2>1. PICK x \in Nat : x = SumOn(missing, S \ {a})
    BY <1>6
  <2>2. PICK y \in Nat \ {0} : y = missing[a]
    OBVIOUS
  <2>3. y + x \in Nat \ {0}
    OBVIOUS
  <2> QED BY <1>2, <1>5, <2>1, <2>2, <2>3
<1>8. \A k \in S : Min({missing[k], (missing[k] * affordable) \div total}) \in Nat
  <2> TAKE k \in S
  <2>1. PICK m \in Nat : m = missing[k]
    BY <1>4
  <2>2. PICK x \in Nat : x = m * affordable
    BY <2>1
  <2>3. PICK q \in Nat : q = x \div total
    BY <1>7, DivNat
  <2>4. Min({m, q}) \in Nat
    BY <2>1, <2>3, Lesser
  <2> QED BY <2>1, <2>2, <2>3, <2>4
<1> QED BY <1>1, <1>7, <1>8 DEF Scaled

LEMMA DivInt ==
  ASSUME NEW a \in Int, NEW d \in Nat \ {0}
  PROVE  a \div d \in Int
OBVIOUS

LEMMA AffordableInt ==
  ASSUME NEW b \in Book, NEW S \in SUBSET Key
  PROVE  Affordable(b, S) \in Int
<1>1. b.cash \in Int /\ b.terms.fee \in Nat /\ b.terms.bps \in Nat
  BY BookIs DEF Rates
<1>2. Cardinality(S) \in Nat
  BY KeyFinite, FS_Subset, FS_CardinalityType
<1>3. PICK x \in Int : x = (b.cash - Cardinality(S) * b.terms.fee) * 10000
  <2>1. PICK c \in Int : c = b.cash
    BY <1>1
  <2>2. PICK y \in Nat : y = Cardinality(S) * b.terms.fee
    BY <1>1, <1>2
  <2>3. (c - y) * 10000 \in Int
    BY <2>1, <2>2
  <2> QED BY <2>1, <2>2, <2>3
<1>4. PICK d \in Nat \ {0} : d = 10000 + b.terms.bps
  BY <1>1
<1> QED BY <1>3, <1>4, DivInt DEF Affordable

LEMMA BuyAllSound ==
  ASSUME NEW b, NEW loaded \in SUBSET Key, MarkedBook(b, loaded), NEW rows, Loaded(loaded, rows),
         NEW S \in SUBSET loaded, \A k \in S : Priced(rows[k]),
         NEW missing, missing \in [S -> Nat \ {0}], NEW day \in Nat
  PROVE  LET c == BuyAll(b, missing, rows, day)
         IN  Frame(b, c) /\ MarkedBook(c, loaded)
<1>1. CASE b.refused \/ S = {}
  <2>1. BuyAll(b, missing, rows, day) = b
    BY <1>1 DEF BuyAll
  <2> QED BY <2>1 DEF Frame
<1>2. CASE ~(b.refused \/ S = {})
  <2>1. PICK afford \in Int : afford = Affordable(b, S)
    <3>1. b \in Book /\ S \in SUBSET Key
      BY DEF MarkedBook, Sound
    <3> QED BY <3>1, AffordableInt
  <2>2. BuyAll(b, missing, rows, day) = BuyWithin(b, missing, afford, rows, day)
    BY <1>2, <2>1 DEF BuyAll
  <2>3. CASE afford <= 0
    <3>1. BuyAll(b, missing, rows, day) = Refused(b)
      BY <2>2, <2>3 DEF BuyWithin
    <3> QED BY <3>1, RefusedSound DEF MarkedBook, Held
  <2>4. CASE ~(afford <= 0)
    <3>1. afford \in Nat /\ S \in SUBSET Key /\ S # {}
      BY <1>2, <2>1, <2>4
    <3>2. PICK amounts : amounts = Scaled(missing, SumFunction(missing), afford)
      OBVIOUS
    <3>3. amounts \in [S -> Nat]
      BY <3>1, <3>2, ScaledNat
    <3>4. BuyAll(b, missing, rows, day) = BuyScaled(b, amounts, rows, day)
      BY <2>2, <2>4, <3>2 DEF BuyWithin
    <3> QED BY <3>3, <3>4, BuyScaledSound
  <2> QED BY <2>3, <2>4
<1> QED BY <1>1, <1>2

LEMMA TradeSound ==
  ASSUME NEW b, NEW loaded \in SUBSET Key, MarkedBook(b, loaded), NEW rows, Loaded(loaded, rows),
         NEW targets \in SUBSET loaded, \A k \in targets \cup Held(b) : Priced(rows[k]),
         NEW worth \in [targets \cup Held(b) -> Nat], NEW want \in [targets \cup Held(b) -> Nat],
         NEW day \in Nat
  PROVE  LET c == Trade(b, worth, want, targets, rows, day)
         IN  Frame(b, c) /\ MarkedBook(c, loaded)
<1>1. PICK over : over = [k \in Held(b) |-> worth[k] - want[k]]
  OBVIOUS
<1>2. over \in [Held(b) -> Int]
  <2>1. \A k \in Held(b) : worth[k] - want[k] \in Int
    OBVIOUS
  <2> QED BY <1>1, <2>1
<1>3. PICK c : c = SellAll(b, over, rows, day)
  OBVIOUS
<1>4. Frame(b, c) /\ MarkedBook(c, loaded)
  BY <1>2, <1>3, SellAllSound
<1>5. PICK S : S = {t \in targets : want[t] - worth[t] >= rows[t].close}
  OBVIOUS
<1>6. PICK missing : missing = [k \in S |-> want[k] - worth[k]]
  OBVIOUS
<1>7. missing \in [S -> Nat \ {0}]
  <2>1. ASSUME NEW k \in S PROVE want[k] - worth[k] \in Nat \ {0}
    <3>1. k \in targets /\ want[k] - worth[k] >= rows[k].close
      BY <1>5
    <3>2. rows[k].close \in Nat /\ rows[k].close > 0
      BY <3>1 DEF Loaded, PriceRow, Priced
    <3>3. PICK x, y \in Nat : x = want[k] /\ y = worth[k]
      BY <3>1
    <3>4. PICK z \in Nat : z = rows[k].close
      BY <3>2
    <3>5. x - y >= z /\ z > 0
      BY <3>1, <3>2, <3>3, <3>4
    <3>6. x - y \in Nat \ {0}
      BY ONLY <3>5, x \in Nat, y \in Nat, z \in Nat, <3>3, <3>4
    <3> QED BY <3>3, <3>6
  <2> QED BY <1>6, <2>1
<1>8. S \in SUBSET loaded /\ \A k \in S : Priced(rows[k])
  BY <1>5
<1>9. PICK d : d = BuyAll(c, missing, rows, day)
  OBVIOUS
<1>10. Frame(c, d) /\ MarkedBook(d, loaded)
  BY <1>4, <1>7, <1>8, <1>9, BuyAllSound
<1>11. Trade(b, worth, want, targets, rows, day) = d
  BY <1>1, <1>3, <1>5, <1>6, <1>9 DEF Trade
<1> QED BY <1>4, <1>10, <1>11 DEF Frame

LEMMA WorthNat ==
  ASSUME NEW b \in Book, NEW k, NEW rows, rows[k].close \in Nat
  PROVE  Worth(b, k, rows) \in Nat
<1>1. CASE k \in Held(b)
  <2>1. b.lots[k] \in Seq(Lot)
    BY <1>1, BookIs
  <2>2. PICK x, y \in Nat : x = Shares(b.lots[k]) /\ y = rows[k].close
    BY <2>1, LotsTyped
  <2>3. x * y \in Nat
    OBVIOUS
  <2> QED BY <1>1, <2>2, <2>3 DEF Worth
<1>2. CASE k \notin Held(b)
  BY <1>2 DEF Worth
<1> QED BY <1>1, <1>2

LEMMA EquityInt ==
  ASSUME NEW b \in Book, Held(b) \subseteq DOMAIN b.mark
  PROVE  Equity(b) \in Int
<1>1. /\ b.cash \in Int /\ Held(b) \in SUBSET Key /\ b.lots \in [Held(b) -> Seq(Lot)]
      /\ b.mark \in [DOMAIN b.mark -> Nat]
  BY BookIs, MarksAre
<1>2. PICK v : v = [k \in Held(b) |-> Shares(b.lots[k]) * b.mark[k]]
  OBVIOUS
<1>3. \A k \in DOMAIN v : v[k] \in Nat
  <2> SUFFICES ASSUME NEW k \in Held(b) PROVE Shares(b.lots[k]) * b.mark[k] \in Nat
    BY <1>2
  <2>1. PICK x, y \in Nat : x = Shares(b.lots[k]) /\ y = b.mark[k]
    BY <1>1, LotsTyped
  <2>2. x * y \in Nat
    OBVIOUS
  <2> QED BY <2>1, <2>2
<1>4. SumFunction(v) \in Nat
  <2>1. IsFiniteSet(DOMAIN v) /\ v = [k \in DOMAIN v |-> v[k]]
    BY <1>1, <1>2, KeyFinite, FS_Subset
  <2> QED BY <1>3, <2>1, SumNat
<1> QED BY <1>1, <1>2, <1>4 DEF Equity

LEMMA RebalanceSound ==
  ASSUME NEW b, NEW loaded \in SUBSET Key, MarkedBook(b, loaded), NEW rows, Loaded(loaded, rows),
         NEW targets \in SUBSET loaded, targets # {}, NEW day \in Nat
  PROVE  LET c == Rebalance(b, targets, rows, day)
         IN  Frame(b, c) /\ MarkedBook(c, loaded)
<1>1. Sound(b) /\ b \in Book /\ Held(b) \subseteq loaded /\ Held(b) \subseteq DOMAIN b.mark
  BY DEF MarkedBook, Sound
<1>2. PICK equity \in Int : equity = Equity(b)
  BY <1>1, EquityInt
<1>3. PICK c : c = Rebalance(b, targets, rows, day)
  OBVIOUS
<1>4. c = RebalanceAt(b, equity, targets, rows, day)
  BY <1>2, <1>3 DEF Rebalance
<1>5. CASE equity <= 0 \/ \E k \in targets \cup Held(b) : ~Priced(rows[k])
  <2>1. c = Refused(b)
    BY <1>4, <1>5 DEF RebalanceAt
  <2> QED BY <1>1, <1>3, <2>1, RefusedSound DEF MarkedBook, Held
<1>6. CASE ~(equity <= 0 \/ \E k \in targets \cup Held(b) : ~Priced(rows[k]))
  <2>1. PICK size \in Nat \ {0} : size = Cardinality(targets)
    <3>1. IsFiniteSet(targets)
      BY KeyFinite, FS_Subset
    <3> QED BY <3>1, FS_CardinalityType, FS_EmptySet
  <2>2. PICK each \in Nat : each = equity \div size
    <3>1. equity \in Nat
      BY <1>2, <1>6
    <3> QED BY <3>1, DivNat
  <2>3. PICK worth : worth = [k \in targets \cup Held(b) |-> Worth(b, k, rows)]
    OBVIOUS
  <2>4. worth \in [targets \cup Held(b) -> Nat]
    <3>1. ASSUME NEW k \in targets \cup Held(b) PROVE Worth(b, k, rows) \in Nat
      <4>1. rows[k].close \in Nat
        BY <1>1 DEF Loaded, PriceRow
      <4> QED BY <1>1, <4>1, WorthNat
    <3> QED BY <2>3, <3>1
  <2>5. PICK want : want = [k \in targets \cup Held(b) |-> IF k \in targets THEN each ELSE 0]
    OBVIOUS
  <2>6. want \in [targets \cup Held(b) -> Nat]
    BY <2>2, <2>5
  <2>7. c = Trade(b, worth, want, targets, rows, day)
    BY <1>4, <1>6, <2>1, <2>2, <2>3, <2>5 DEF RebalanceAt
  <2> QED BY <1>3, <1>6, <2>4, <2>6, <2>7, TradeSound
<1> QED BY <1>5, <1>6

PointOf(b, day) ==
  [day |-> day, equity |-> Equity(b), stale |-> {k \in Held(b) : b.marked[k] # day}]

\* The curve's last point is the book as it stands.
Shown(b) ==
  /\ b.curve # <<>> /\ b.last = Last(b.curve).day
  /\ Last(b.curve).equity = Equity(b)

Extended(c, b, day) == c.curve = Append(b.curve, PointOf(c, day)) /\ c.last = day

LEMMA CurveAppend ==
  ASSUME NEW s \in Seq(Point), NEW p \in Point, NEW t, t = Append(s, p)
  PROVE  /\ t \in Seq(Point) /\ t # <<>> /\ Last(t) = p
         /\ Len(s) \in Nat /\ Len(t) = Len(s) + 1
         /\ \A i \in 1..Len(s) : t[i] = s[i]
         /\ t[Len(s) + 1] = p
<1>1. t \in Seq(Point) /\ Len(s) \in Nat /\ Len(t) = Len(s) + 1
  OBVIOUS
<1>2. \A i \in 1..Len(s) : t[i] = s[i]
  OBVIOUS
<1>3. t[Len(s) + 1] = p
  OBVIOUS
<1>4. t # <<>>
  BY <1>1
<1>5. Last(t) = p
  BY <1>1, <1>3 DEF Last
<1> QED BY <1>1, <1>2, <1>3, <1>4, <1>5

LEMMA PointTyped ==
  ASSUME NEW b \in Book, Held(b) \subseteq DOMAIN b.mark, NEW day \in Nat
  PROVE  /\ PointOf(b, day) \in Point
         /\ PointOf(b, day).day = day /\ PointOf(b, day).equity = Equity(b)
<1>1. Equity(b) \in Int /\ Held(b) \in SUBSET Key
  BY EquityInt, BookIs
<1>2. PICK stale \in SUBSET Key : stale = {k \in Held(b) : b.marked[k] # day}
  BY <1>1
<1>3. PICK e \in Int : e = Equity(b)
  BY <1>1
<1>4. day \in Int
  OBVIOUS
<1> QED BY <1>2, <1>3, <1>4 DEF PointOf, Point

LEMMA RecordSound ==
  ASSUME NEW b, NEW loaded, MarkedBook(b, loaded), NEW day \in Nat,
         b.curve = <<>> \/ Last(b.curve).day # day
  PROVE  LET c == RecordEquity(b, day)
         IN  /\ MarkedBook(c, loaded) /\ Extended(c, b, day) /\ Shown(c)
             /\ c.terms = b.terms /\ c.refused = b.refused /\ Held(c) = Held(b)
<1>1. Sound(b) /\ b \in Book /\ Held(b) \subseteq DOMAIN b.mark /\ Held(b) \subseteq loaded
  BY DEF MarkedBook, Sound
<1>2. b.curve \in Seq(Point) /\ Held(b) \in SUBSET Key
  BY <1>1, BookIs
<1>3. PICK p \in Point : p = PointOf(b, day) /\ p.day = day /\ p.equity = Equity(b)
  BY <1>1, PointTyped
<1>4. PICK curve \in Seq(Point) : /\ curve = Append(b.curve, p)
                                   /\ curve # <<>> /\ Last(curve) = p
  <2>1. PICK s \in Seq(Point) : s = b.curve
    BY <1>2
  <2>2. p \in Point
    BY <1>3
  <2>3. PICK t : t = Append(s, p)
    OBVIOUS
  <2>4. t \in Seq(Point) /\ Len(s) \in Nat /\ Len(t) = Len(s) + 1 /\ t[Len(s) + 1] = p
    BY <2>1, <2>2, <2>3
  <2>5. t # <<>> /\ Last(t) = p
    BY <2>4 DEF Last
  <2> QED BY <2>1, <2>3, <2>4, <2>5
<1>5. PICK c : c = RecordEquity(b, day)
  OBVIOUS
<1>6. c = [b EXCEPT !.curve = curve, !.last = day]
  BY <1>3, <1>4, <1>5 DEF RecordEquity, PointOf
<1>7. /\ c \in Book /\ c.curve = curve /\ c.last = day /\ c.terms = b.terms /\ c.cash = b.cash
      /\ c.lots = b.lots /\ c.mark = b.mark /\ c.marked = b.marked /\ c.short = b.short
      /\ c.long = b.long /\ c.income = b.income /\ c.tax = b.tax /\ c.refused = b.refused
  <2>1. day \in Int
    OBVIOUS
  <2> QED BY <1>1, <1>6, <2>1 DEF Book
<1>8. TaxesDue(c) = TaxesDue(b)
  BY <1>1, <1>7, BookIs
<1>9. Sound(c)
  BY <1>1, <1>7, <1>8 DEF Sound, Adds
<1>10. Held(c) = Held(b) /\ Equity(c) = Equity(b) /\ PointOf(c, day) = p
  BY <1>3, <1>7 DEF Held, Equity, PointOf
<1> QED BY <1>1, <1>3, <1>4, <1>5, <1>7, <1>9, <1>10 DEF MarkedBook, Extended, Shown

LEMMA ClosingSound ==
  ASSUME NEW b, NEW loaded \in SUBSET Key, MarkedBook(b, loaded), ~b.refused,
         NEW rows, Loaded(loaded, rows), NEW events \in Seq(Within(loaded)),
         NEW targets \in SUBSET loaded, NEW day \in Nat, NEW entry,
         targets # {} \/ day # entry, b.curve = <<>> \/ Last(b.curve).day # day
  PROVE  LET c == Closing(b, day, rows, events, targets, entry)
         IN  c.refused \/ /\ MarkedBook(c, loaded) /\ Extended(c, b, day) /\ Shown(c)
                          /\ c.terms = b.terms
<1>1. PICK c : c = Session(b, day, rows, events)
  OBVIOUS
<1>2. Frame(b, c) /\ (~c.refused => MarkedBook(c, loaded))
  BY <1>1, SessionSound
<1>3. PICK d : d = Traded(c, targets, rows, day, entry)
  OBVIOUS
<1>4. d.refused \/ (Frame(b, d) /\ MarkedBook(d, loaded))
  <2>1. CASE c.refused \/ day # entry
    BY <1>2, <1>3, <2>1 DEF Traded
  <2>2. CASE ~(c.refused \/ day # entry)
    <3>1. d = Rebalance(c, targets, rows, day)
      BY <1>3, <2>2 DEF Traded
    <3>2. MarkedBook(c, loaded) /\ targets # {}
      BY <1>2, <2>2
    <3>3. Frame(c, d) /\ MarkedBook(d, loaded)
      BY <3>1, <3>2, RebalanceSound
    <3> QED BY <1>2, <3>3 DEF Frame
  <2> QED BY <2>1, <2>2
<1>5. PICK e : e = Recorded(d, day)
  OBVIOUS
<1>6. Closing(b, day, rows, events, targets, entry) = e
  BY <1>1, <1>3, <1>5 DEF Closing
<1>7. CASE d.refused
  <2>1. e = d
    BY <1>5, <1>7 DEF Recorded
  <2> QED BY <1>6, <1>7, <2>1
<1>8. CASE ~d.refused
  <2>1. e = RecordEquity(d, day)
    BY <1>5, <1>8 DEF Recorded
  <2>2. Frame(b, d) /\ MarkedBook(d, loaded)
    BY <1>4, <1>8
  <2>3. d.curve = b.curve /\ d.terms = b.terms
    BY <2>2 DEF Frame
  <2>4. /\ MarkedBook(e, loaded) /\ Extended(e, d, day) /\ Shown(e) /\ e.terms = d.terms
    BY <2>1, <2>2, <2>3, RecordSound
  <2> QED BY <1>6, <2>3, <2>4 DEF Extended
<1> QED BY <1>7, <1>8

\* After the first i sessions of "order" a book shows one more point for each.
Carrying(c, b, order, i, loaded) ==
  /\ MarkedBook(c, loaded) /\ c.terms = b.terms /\ Shown(c)
  /\ Len(c.curve) = Len(b.curve) + i
  /\ \A j \in 1..Len(b.curve) : c.curve[j].day = b.curve[j].day
  /\ \A j \in 1..i : c.curve[Len(b.curve) + j].day = order[j]
  /\ c.last = IF i = 0 THEN b.last ELSE order[i]

LEMMA CarryingOn ==
  ASSUME NEW b \in Book, NEW order \in Seq(Nat), NEW i \in Nat, i + 1 \in 1..Len(order),
         NEW loaded, NEW c, Carrying(c, b, order, i, loaded),
         NEW d, MarkedBook(d, loaded), Extended(d, c, order[i + 1]), Shown(d), d.terms = c.terms
  PROVE  Carrying(d, b, order, i + 1, loaded)
<1>1. PICK m \in Nat : m = Len(b.curve)
  BY BookIs
<1>2. PICK day \in Nat : day = order[i + 1]
  OBVIOUS
<1>3. c.curve \in Seq(Point) /\ d \in Book /\ d.curve \in Seq(Point)
  BY BookIs DEF Carrying, MarkedBook, Sound
<1>4. PICK p \in Point : p = PointOf(d, day) /\ p.day = day
  <2>1. Held(d) \subseteq DOMAIN d.mark
    BY DEF MarkedBook
  <2> QED BY <1>2, <1>3, <2>1, PointTyped
<1>5. d.curve = Append(c.curve, p) /\ d.last = day
  BY <1>2, <1>4 DEF Extended
<1>6. Len(c.curve) = m + i
  BY <1>1 DEF Carrying
<1>7. /\ Len(d.curve) = (m + i) + 1
      /\ \A j \in 1..(m + i) : d.curve[j] = c.curve[j]
      /\ d.curve[(m + i) + 1] = p
  <2>1. PICK s \in Seq(Point) : s = c.curve
    BY <1>3
  <2>2. PICK t : t = Append(s, p)
    OBVIOUS
  <2>3. /\ Len(t) = Len(s) + 1
        /\ \A j \in 1..Len(s) : t[j] = s[j]
        /\ t[Len(s) + 1] = p
    BY <2>2, CurveAppend
  <2>4. d.curve = t /\ Len(s) = m + i
    BY <1>5, <1>6, <2>1, <2>2
  <2> QED BY <2>1, <2>3, <2>4
<1>8. \A j \in 1..m : d.curve[j].day = b.curve[j].day
  <2> TAKE j \in 1..m
  <2>1. j \in 1..(m + i)
    OBVIOUS
  <2>2. c.curve[j].day = b.curve[j].day
    BY <1>1 DEF Carrying
  <2> QED BY <1>7, <2>1, <2>2
<1>9. \A j \in 1..(i + 1) : d.curve[m + j].day = order[j]
  <2> TAKE j \in 1..(i + 1)
  <2>1. CASE j = i + 1
    <3>1. m + j = (m + i) + 1
      BY <2>1
    <3> QED BY <1>2, <1>4, <1>7, <2>1, <3>1
  <2>2. CASE j # i + 1
    <3>1. j \in 1..i /\ m + j \in 1..(m + i)
      BY <2>2
    <3>2. c.curve[m + j].day = order[j]
      BY <1>1, <3>1 DEF Carrying
    <3> QED BY <1>7, <3>1, <3>2
  <2> QED BY <2>1, <2>2
<1>10. (m + i) + 1 = m + (i + 1) /\ i + 1 # 0
  OBVIOUS
<1>11. d.terms = b.terms
  BY DEF Carrying
<1> QED BY <1>1, <1>2, <1>5, <1>7, <1>8, <1>9, <1>10, <1>11 DEF Carrying

LEMMA CarriedSound ==
  ASSUME NEW w, History(w), NEW loaded \in SUBSET Key, NEW b, MarkedBook(b, loaded), ~b.refused, Shown(b),
         NEW days \in SUBSET w.open, IsFiniteSet(days), \A d \in days : b.last < d,
         NEW events \in Seq(Within(loaded)), NEW targets \in SUBSET loaded, NEW entry,
         targets # {} \/ entry \notin days
  PROVE  LET c == Carried(b, days, w, loaded, events, targets, entry)
             order == InDayOrder(days)
         IN  c.refused \/ Carrying(c, b, order, Len(order), loaded)
<1>1. days \in SUBSET Nat /\ b \in Book
  BY DEF History, MarkedBook, Sound
<1>2. PICK order : order = InDayOrder(days)
  OBVIOUS
<1>3. /\ Listing(order, days)
      /\ \A i, j \in 1..Len(order) : i < j => order[i] < order[j]
  BY <1>1, <1>2, DaysListed
<1>4. PICK n \in Nat : n = Len(order) /\ DOMAIN order = 1..n
  BY <1>3 DEF Listing
<1>5. PICK f : DayRun(f, n, b, days, w, loaded, events, targets, entry, order)
  BY <1>2, <1>4, DayRounds
<1> DEFINE Good(i) == i <= n => f[i].refused \/ Carrying(f[i], b, order, i, loaded)
           T == {i \in Nat : Good(i)}
<1>6. 0 \in T
  <2>1. f[0] = b
    BY <1>5 DEF DayRun
  <2>2. Len(b.curve) \in Nat
    BY <1>1, BookIs
  <2>3. Carrying(b, b, order, 0, loaded)
    BY <2>2 DEF Carrying
  <2> QED BY <2>1, <2>3
<1>7. ASSUME NEW i \in Nat, i \in T PROVE i + 1 \in T
  <2> SUFFICES ASSUME i + 1 <= n
               PROVE  f[i + 1].refused \/ Carrying(f[i + 1], b, order, i + 1, loaded)
    OBVIOUS
  <2>1. i <= n /\ i + 1 \in 1..n /\ (i + 1) - 1 = i
    OBVIOUS
  <2>2. PICK c : c = f[i]
    OBVIOUS
  <2>3. c.refused \/ Carrying(c, b, order, i, loaded)
    BY <1>7, <2>1, <2>2
  <2>4. PICK day \in days : day = order[i + 1]
    BY <1>3, <1>4, <2>1 DEF Listing
  <2>5. PICK rows : rows = RowsOn(w, loaded, day)
    OBVIOUS
  <2>6. f[i + 1] = IF c.refused THEN c ELSE Closing(c, day, rows, events, targets, entry)
    BY <1>5, <2>1, <2>2, <2>4, <2>5 DEF DayRun
  <2>7. CASE c.refused
    BY <2>6, <2>7
  <2>8. CASE ~c.refused
    <3>1. Carrying(c, b, order, i, loaded)
      BY <2>3, <2>8
    <3>2. PICK d : d = Closing(c, day, rows, events, targets, entry)
      OBVIOUS
    <3>3. Loaded(loaded, rows)
      BY <2>5 DEF Loaded, RowsOn, History
    <3>4. day \in Nat /\ (targets # {} \/ day # entry)
      BY <1>1
    <3>5. c.last < day
      <4>1. CASE i = 0
        BY <3>1, <4>1 DEF Carrying
      <4>2. CASE i # 0
        <5>1. i \in 1..Len(order) /\ i + 1 \in 1..Len(order) /\ i < i + 1
          BY <1>4, <2>1, <4>2
        <5>2. order[i] < order[i + 1]
          BY <1>3, <5>1
        <5> QED BY <2>4, <3>1, <4>2, <5>2 DEF Carrying
      <4> QED BY <4>1, <4>2
    <3>6. Last(c.curve).day # day
      <4>1. c.last \in Int /\ c.last = Last(c.curve).day
        BY <3>1, BookIs DEF Carrying, Shown, MarkedBook, Sound
      <4> QED BY <3>4, <3>5, <4>1
    <3>7. MarkedBook(c, loaded)
      BY <3>1 DEF Carrying
    <3>8. d.refused \/ /\ MarkedBook(d, loaded) /\ Extended(d, c, day) /\ Shown(d) /\ d.terms = c.terms
      BY <2>8, <3>2, <3>3, <3>4, <3>6, <3>7, ClosingSound
    <3>9. order \in Seq(Nat) /\ i + 1 \in 1..Len(order)
      BY <1>1, <1>3, <1>4, <2>1 DEF Listing
    <3>10. CASE d.refused
      BY <2>6, <2>8, <3>2, <3>10
    <3>11. CASE ~d.refused
      <4>1. MarkedBook(d, loaded) /\ Extended(d, c, order[i + 1]) /\ Shown(d) /\ d.terms = c.terms
        BY <2>4, <3>8, <3>11
      <4>2. Carrying(d, b, order, i + 1, loaded)
        BY <1>1, <3>1, <3>9, <4>1, CarryingOn
      <4> QED BY <2>6, <2>8, <3>2, <4>2
    <3> QED BY <3>10, <3>11
  <2> QED BY <2>7, <2>8
<1>8. n \in T
  <2> HIDE DEF Good
  <2>1. T \in SUBSET Nat
    OBVIOUS
  <2> HIDE DEF T
  <2>2. T = Nat
    BY <1>6, <1>7, <2>1, Counted
  <2> QED BY <2>2
<1>9. Carried(b, days, w, loaded, events, targets, entry) = f[n]
  BY <1>5 DEF DayRun
<1> QED BY <1>2, <1>4, <1>8, <1>9

Rising(b) == \A i, j \in 1..Len(b.curve) : i < j => b.curve[i].day < b.curve[j].day

\* A book between two operations.
AtRest(b) ==
  /\ Sound(b) /\ ~b.refused /\ Held(b) \subseteq DOMAIN b.mark /\ Rising(b)
  /\ b.last = Unmarked => b.curve = <<>>
  /\ b.last # Unmarked => Shown(b) /\ b.last \in Nat

LEMMA NotLater ==
  ASSUME NEW b \in Book, Rising(b), Shown(b), NEW i \in 1..Len(b.curve)
  PROVE  /\ b.curve[i].day <= b.last /\ b.curve[i].day \in Int /\ b.last \in Int
         /\ Len(b.curve) \in Nat \ {0} /\ b.curve[Len(b.curve)].day = b.last
<1>1. b.curve \in Seq(Point) /\ b.last \in Int
  BY BookIs
<1>2. Len(b.curve) \in Nat /\ b.curve[i] \in Point /\ Len(b.curve) # 0
  BY <1>1
<1>3. b.last = b.curve[Len(b.curve)].day
  BY DEF Shown, Last
<1>4. CASE i = Len(b.curve)
  BY <1>1, <1>2, <1>3, <1>4 DEF Point
<1>5. CASE i # Len(b.curve)
  <2>1. i < Len(b.curve) /\ Len(b.curve) \in 1..Len(b.curve)
    BY <1>2, <1>5
  <2>2. b.curve[i].day < b.curve[Len(b.curve)].day
    BY <2>1 DEF Rising
  <2>3. b.curve[i].day \in Int
    BY <1>2 DEF Point
  <2>4. PICK x, y \in Int : x = b.curve[i].day /\ y = b.last /\ x < y
    BY <1>1, <1>3, <2>2, <2>3
  <2>5. x <= y
    BY <2>4
  <2> QED BY <1>1, <1>2, <1>3, <2>3, <2>4, <2>5
<1> QED BY <1>4, <1>5

LEMMA RisingOn ==
  ASSUME NEW b \in Book, Rising(b), Shown(b), NEW order \in Seq(Nat),
         \A i, j \in 1..Len(order) : i < j => order[i] < order[j],
         \A j \in 1..Len(order) : b.last < order[j],
         NEW loaded, NEW c, Carrying(c, b, order, Len(order), loaded)
  PROVE  Rising(c)
<1>1. PICK m \in Nat : m = Len(b.curve)
  BY BookIs
<1>2. PICK n \in Nat : n = Len(order)
  OBVIOUS
<1>3. /\ Len(c.curve) = m + n
      /\ \A j \in 1..m : c.curve[j].day = b.curve[j].day
      /\ \A j \in 1..n : c.curve[m + j].day = order[j]
  BY <1>1, <1>2 DEF Carrying
<1> SUFFICES ASSUME NEW i \in 1..(m + n), NEW j \in 1..(m + n), i < j
             PROVE  c.curve[i].day < c.curve[j].day
  BY <1>3 DEF Rising
<1>4. CASE j <= m
  <2>1. i \in 1..m /\ j \in 1..m
    BY <1>4
  <2>2. b.curve[i].day < b.curve[j].day
    BY <1>1, <2>1 DEF Rising
  <2> QED BY <1>3, <2>1, <2>2
<1>5. CASE i <= m /\ j > m
  <2>1. PICK k \in 1..n : j = m + k
    <3>1. j - m \in 1..n /\ j = m + (j - m)
      BY <1>1, <1>2, <1>5
    <3> QED BY <3>1
  <2>2. i \in 1..m
    BY <1>5
  <2>3. b.curve[i].day <= b.last /\ b.curve[i].day \in Int /\ b.last \in Int
    BY <1>1, <2>2, NotLater
  <2>4. b.last < order[k] /\ order[k] \in Nat
    BY <1>2
  <2>5. PICK x, y \in Int : x = b.curve[i].day /\ y = b.last
    BY <2>3
  <2>6. PICK z \in Nat : z = order[k]
    BY <2>4
  <2>7. x < z
    BY <2>3, <2>4, <2>5, <2>6
  <2> QED BY <1>3, <2>1, <2>2, <2>5, <2>6, <2>7
<1>6. CASE i > m
  <2>1. PICK h, k \in 1..n : i = m + h /\ j = m + k /\ h < k
    <3>1. i - m \in 1..n /\ i = m + (i - m) /\ j - m \in 1..n /\ j = m + (j - m) /\ i - m < j - m
      BY <1>1, <1>2, <1>6
    <3> QED BY <3>1
  <2>2. order[h] < order[k]
    BY <1>2, <2>1
  <2> QED BY <1>3, <2>1, <2>2
<1> QED BY <1>4, <1>5, <1>6

\* Days are carried with trades at their entry, or to no entry at all.
Entered(targets, entry) == targets # {} \/ entry \notin Nat

LEMMA CarriedRest ==
  ASSUME NEW w, History(w), NEW loaded \in SUBSET Key, NEW b, MarkedBook(b, loaded), ~b.refused, Shown(b),
         Rising(b), b.last \in Nat, NEW z \in w.open, b.last < z,
         NEW events \in Seq(Within(loaded)), NEW targets \in SUBSET loaded, NEW entry,
         Entered(targets, entry), NEW days, days = Sessions(w, b.last, z),
         NEW c, c = Carried(b, days, w, loaded, events, targets, entry), ~c.refused
  PROVE  /\ AtRest(c) /\ c.terms = b.terms /\ c.last = z
         /\ Carrying(c, b, InDayOrder(days), Len(InDayOrder(days)), loaded)
<1>1. z \in Nat /\ b \in Book
  BY DEF History, MarkedBook, Sound
<1>2. /\ days \in SUBSET Nat /\ IsFiniteSet(days) /\ days \subseteq w.open
      /\ \A d \in days : b.last < d /\ d <= z
  BY <1>1, SessionsAre
<1>3. z \in days
  <2>1. z <= z
    BY <1>1
  <2> QED BY <2>1 DEF Sessions
<1>4. PICK order : order = InDayOrder(days)
  OBVIOUS
<1>5. /\ Listing(order, days)
      /\ \A i, j \in 1..Len(order) : i < j => order[i] < order[j]
  BY <1>2, <1>4, DaysListed
<1>6. Carrying(c, b, order, Len(order), loaded)
  <2>1. targets # {} \/ entry \notin days
    BY <1>2 DEF Entered
  <2> QED BY <1>2, <1>4, <2>1, CarriedSound
<1>7. order \in Seq(Nat) /\ \A j \in 1..Len(order) : order[j] \in days /\ b.last < order[j]
  BY <1>2, <1>5 DEF Listing
<1>8. Rising(c)
  BY <1>1, <1>5, <1>6, <1>7, RisingOn
<1>9. PICK n \in Nat : n = Len(order)
  BY <1>7
<1>10. PICK k \in 1..n : order[k] = z
  BY <1>3, <1>5, <1>9 DEF Listing
<1>11. n \in 1..n /\ n # 0
  BY <1>10
<1>12. order[n] = z
  <2>1. order[n] \in Nat /\ order[n] <= z
    BY <1>2, <1>7, <1>9, <1>11
  <2>2. CASE k = n
    BY <1>10, <2>2
  <2>3. CASE k # n
    <3>1. k < n
      BY <2>3
    <3>2. z < order[n]
      BY <1>5, <1>9, <1>10, <1>11, <3>1
    <3> QED BY <1>1, <2>1, <3>2
  <2> QED BY <2>2, <2>3
<1>13. c.last = z
  BY <1>6, <1>9, <1>11, <1>12 DEF Carrying
<1>14. MarkedBook(c, loaded) /\ Shown(c) /\ c.terms = b.terms
  BY <1>6 DEF Carrying
<1>15. z # Unmarked
  BY <1>1, TradingBookAssumption
<1> QED BY <1>1, <1>4, <1>6, <1>8, <1>13, <1>14, <1>15 DEF AtRest, MarkedBook

\* From the first point on, at "first" when the book had none, to the last day.
Timed(c, b, first, order) ==
  LET m == IF b.last = Unmarked THEN 1 ELSE Len(b.curve)
  IN  /\ Len(c.curve) = m + Len(order)
      /\ \A j \in 1..m : c.curve[j].day = IF b.last = Unmarked THEN first ELSE b.curve[j].day
      /\ \A j \in 1..Len(order) : c.curve[m + j].day = order[j]

LEMMA OpenedRest ==
  ASSUME NEW b, AtRest(b), NEW first \in Nat, b.last \in {Unmarked, first}
  PROVE  LET o == Opened(b, first)
         IN  /\ AtRest(o) /\ Shown(o) /\ o.last = first /\ o.terms = b.terms /\ Held(o) = Held(b)
             /\ b.last = Unmarked => Len(o.curve) = 1 /\ o.curve[1].day = first
             /\ b.last # Unmarked => o = b
<1>1. PICK o : o = Opened(b, first)
  OBVIOUS
<1>2. first # Unmarked
  BY TradingBookAssumption
<1>3. CASE b.last # Unmarked
  <2>1. o = b
    BY <1>1, <1>3 DEF Opened
  <2> QED BY <1>1, <1>3, <2>1 DEF AtRest
<1>4. CASE b.last = Unmarked
  <2>1. PICK c : c = [b EXCEPT !.last = first]
    OBVIOUS
  <2>2. o = RecordEquity(c, first)
    BY <1>1, <1>4, <2>1 DEF Opened
  <2>3. b \in Book /\ Sound(b) /\ b.curve = <<>>
    BY <1>4 DEF AtRest, Sound
  <2>4. /\ c \in Book /\ c.curve = <<>> /\ c.terms = b.terms /\ c.cash = b.cash
        /\ c.lots = b.lots /\ c.mark = b.mark /\ c.marked = b.marked /\ c.short = b.short
        /\ c.long = b.long /\ c.income = b.income /\ c.tax = b.tax /\ c.refused = b.refused
    <3>1. first \in Int
      OBVIOUS
    <3> QED BY <2>1, <2>3, <3>1 DEF Book
  <2>5. TaxesDue(c) = TaxesDue(b)
    BY <2>3, <2>4, BookIs
  <2>6. Sound(c)
    BY <2>3, <2>4, <2>5 DEF Sound, Adds
  <2>7. MarkedBook(c, Held(b)) /\ Held(c) = Held(b) /\ ~c.refused
    BY <2>4, <2>6 DEF MarkedBook, AtRest, Held
  <2>8. /\ MarkedBook(o, Held(b)) /\ Extended(o, c, first) /\ Shown(o)
        /\ o.terms = c.terms /\ o.refused = c.refused /\ Held(o) = Held(c)
    BY <2>2, <2>4, <2>7, RecordSound
  <2>9. o.last = first /\ Len(o.curve) = 1 /\ o.curve[1].day = first
    <3>1. o.curve = Append(<<>>, PointOf(o, first)) /\ o.last = first
      BY <2>4, <2>8 DEF Extended
    <3>2. PointOf(o, first).day = first
      BY DEF PointOf
    <3>3. PICK p : p = PointOf(o, first)
      OBVIOUS
    <3>4. Append(<<>>, p) = <<p>> /\ Len(<<p>>) = 1 /\ <<p>>[1] = p
      OBVIOUS
    <3> QED BY <3>1, <3>2, <3>3, <3>4
  <2>10. Rising(o)
    BY <2>9 DEF Rising
  <2> QED BY <1>1, <1>2, <1>4, <2>4, <2>7, <2>8, <2>9, <2>10 DEF AtRest, MarkedBook
<1> QED BY <1>3, <1>4

LEMMA CarryingTimed ==
  ASSUME NEW b, AtRest(b), NEW first \in Nat, b.last \in {Unmarked, first}, NEW order,
         NEW loaded, NEW c, Carrying(c, Opened(b, first), order, Len(order), loaded)
  PROVE  Timed(c, b, first, order)
<1>1. PICK o : o = Opened(b, first)
  OBVIOUS
<1>2. /\ b.last = Unmarked => Len(o.curve) = 1 /\ o.curve[1].day = first
      /\ b.last # Unmarked => o = b
  BY <1>1, OpenedRest
<1>3. /\ Len(c.curve) = Len(o.curve) + Len(order)
      /\ \A j \in 1..Len(o.curve) : c.curve[j].day = o.curve[j].day
      /\ \A j \in 1..Len(order) : c.curve[Len(o.curve) + j].day = order[j]
  BY <1>1 DEF Carrying
<1>4. CASE b.last = Unmarked
  <2>1. Len(o.curve) = 1 /\ o.curve[1].day = first
    BY <1>2, <1>4
  <2>2. \A j \in 1..1 : c.curve[j].day = first
    <3>1. \A j \in 1..1 : j = 1 /\ j \in 1..Len(o.curve)
      BY <2>1
    <3> QED BY <1>3, <2>1, <3>1
  <2>3. Len(c.curve) = 1 + Len(order)
    BY <1>3, <2>1
  <2>4. \A j \in 1..Len(order) : c.curve[1 + j].day = order[j]
    BY <1>3, <2>1
  <2> QED BY <1>4, <2>2, <2>3, <2>4 DEF Timed
<1>5. CASE b.last # Unmarked
  BY <1>2, <1>3, <1>5 DEF Timed
<1> QED BY <1>4, <1>5

LEMMA KeptIs ==
  ASSUME NEW old, NEW new
  PROVE  /\ new.refused => ~Kept(old, new).done /\ Kept(old, new).book = old
         /\ ~new.refused => Kept(old, new).done /\ Kept(old, new).book = new
<1>1. CASE new.refused
  BY <1>1 DEF Kept
<1>2. CASE ~new.refused
  BY <1>2 DEF Kept
<1> QED BY <1>1, <1>2

\* What an advance or a mark does to a book, when it is done.
Advanced(c, b) == AtRest(c) /\ c.terms = b.terms

LEMMA AdvanceOverSound ==
  ASSUME NEW w, History(w), NEW b, AtRest(b), NEW targets \in SUBSET Key, targets # {},
         NEW decision \in Nat, NEW entry, NEW exit, decision < entry, entry <= exit,
         b.last \in {Unmarked, decision},
         NEW r, r = AdvanceTo(b, targets, decision, entry, exit, w)
  PROVE  \/ ~r.done /\ r.book = b
         \/ /\ r.done /\ Advanced(r.book, b) /\ r.book.last = exit /\ exit \in w.open
            /\ decision < exit
            /\ Timed(r.book, b, decision, InDayOrder(Sessions(w, decision, exit)))
<1>1. PICK loaded : loaded = Reached(w, targets \cup Held(b), decision, exit)
  OBVIOUS
<1>2. PICK events : events = ConversionOrder(w, targets \cup Held(b), decision, exit)
  OBVIOUS
<1>3. targets \cup Held(b) \in SUBSET Key
  BY BookIs DEF AtRest, Sound
<1>4. loaded \in SUBSET Key /\ targets \in SUBSET loaded /\ Held(b) \subseteq loaded
  BY <1>1, <1>3, ReachedIs
<1>5. events \in Seq(Within(loaded))
  BY <1>1, <1>2, <1>3, ConversionsListed
<1>6. r = AdvanceOver(b, targets, decision, entry, exit, w, loaded, events)
  BY <1>1, <1>2 DEF AdvanceTo
<1>7. CASE ~Preflight(b, targets, w, events, decision, entry, exit)
  <2>1. r = Kept(b, Refused(b))
    BY <1>6, <1>7 DEF AdvanceOver
  <2>2. Refused(b).refused
    BY RefusedSound DEF AtRest
  <2>3. ~r.done /\ r.book = b
    BY <2>1, <2>2, KeptIs
  <2> QED BY <2>3
<1>8. CASE Preflight(b, targets, w, events, decision, entry, exit)
  <2>1. entry \in w.open /\ exit \in w.open
    BY <1>8 DEF Preflight
  <2>2. entry \in Nat /\ exit \in Nat /\ decision < exit
    <3>1. entry \in Nat /\ exit \in Nat
      BY <2>1 DEF History
    <3> QED BY <3>1
  <2>3. PICK o : o = Opened(b, decision)
    OBVIOUS
  <2>4. /\ AtRest(o) /\ Shown(o) /\ o.last = decision /\ o.terms = b.terms /\ Held(o) = Held(b)
    BY <2>3, OpenedRest
  <2>5. PICK days : days = Sessions(w, decision, exit)
    OBVIOUS
  <2>6. PICK c : c = Carried(o, days, w, loaded, events, targets, entry)
    OBVIOUS
  <2>7. r = Kept(b, c)
    BY <1>6, <1>8, <2>3, <2>5, <2>6 DEF AdvanceOver
  <2>8. CASE c.refused
    <3>1. ~r.done /\ r.book = b
      BY <2>7, <2>8, KeptIs
    <3> QED BY <3>1
  <2>9. CASE ~c.refused
    <3>1. r.done /\ r.book = c
      BY <2>7, <2>9, KeptIs
    <3>2. MarkedBook(o, loaded) /\ ~o.refused /\ Rising(o)
      BY <1>4, <2>4 DEF AtRest, MarkedBook
    <3>3. days = Sessions(w, o.last, exit) /\ o.last \in Nat /\ o.last < exit
      BY <2>2, <2>4, <2>5
    <3>4. /\ AtRest(c) /\ c.terms = o.terms /\ c.last = exit
          /\ Carrying(c, o, InDayOrder(days), Len(InDayOrder(days)), loaded)
      <4>1. Entered(targets, entry)
        BY DEF Entered
      <4> QED BY <1>4, <1>5, <2>1, <2>4, <2>6, <2>9, <3>2, <3>3, <4>1, CarriedRest
    <3>5. Timed(c, b, decision, InDayOrder(days))
      BY <2>3, <3>4, CarryingTimed
    <3> QED BY <2>1, <2>2, <2>4, <2>5, <3>1, <3>4, <3>5 DEF Advanced
  <2> QED BY <2>8, <2>9
<1> QED BY <1>7, <1>8

\* How a book came out of one interval.
Interval(r, b, decision, exit, w) ==
  \/ ~r.done /\ r.book = b
  \/ /\ r.done /\ Advanced(r.book, b) /\ r.book.last = exit /\ exit \in w.open
     /\ decision < exit /\ b.last \in {Unmarked, decision}
     /\ Timed(r.book, b, decision, InDayOrder(Sessions(w, decision, exit)))

LEMMA AdvanceSound ==
  ASSUME NEW w, History(w), NEW b, AtRest(b), NEW picks \in SUBSET Ticker,
         NEW decision \in Nat, NEW entry, NEW exit
  PROVE  Interval(Advance(b, picks, decision, entry, exit, w), b, decision, exit, w)
<1>1. PICK r : r = Advance(b, picks, decision, entry, exit, w)
  OBVIOUS
<1>2. CASE \/ picks = {}
           \/ ~(decision < entry /\ entry <= exit)
           \/ b.last \notin {Unmarked, decision}
           \/ \E t, u \in picks : t # u /\ SecurityOf[t] = SecurityOf[u]
  <2>1. r = [done |-> FALSE, book |-> b]
    BY <1>1, <1>2 DEF Advance
  <2>2. r.done = FALSE /\ r.book = b
    BY <2>1
  <2> QED BY <1>1, <2>2 DEF Interval
<1>3. CASE ~(\/ picks = {}
             \/ ~(decision < entry /\ entry <= exit)
             \/ b.last \notin {Unmarked, decision}
             \/ \E t, u \in picks : t # u /\ SecurityOf[t] = SecurityOf[u])
  <2>1. PICK targets : targets = {SecurityOf[t] : t \in picks}
    OBVIOUS
  <2>2. r = AdvanceTo(b, targets, decision, entry, exit, w)
    BY <1>1, <1>3, <2>1 DEF Advance
  <2>3. targets \in SUBSET Key /\ targets # {}
    BY <1>3, <2>1, TradingBookAssumption
  <2>4. decision < entry /\ entry <= exit /\ b.last \in {Unmarked, decision}
    BY <1>3
  <2>5. \/ ~r.done /\ r.book = b
        \/ /\ r.done /\ Advanced(r.book, b) /\ r.book.last = exit /\ exit \in w.open
           /\ decision < exit
           /\ Timed(r.book, b, decision, InDayOrder(Sessions(w, decision, exit)))
    BY <2>2, <2>3, <2>4, AdvanceOverSound
  <2> QED BY <1>1, <2>4, <2>5 DEF Interval
<1> QED BY <1>2, <1>3

LEMMA MarkSound ==
  ASSUME NEW w, History(w), NEW b, AtRest(b), b.last # Unmarked, NEW through \in w.open,
         b.last < through, NEW r, r = MarkThrough(b, through, w)
  PROVE  \/ ~r.done
         \/ r.done /\ Advanced(r.book, b) /\ r.book.last = through
<1>1. PICK loaded : loaded = Reached(w, Held(b), b.last, through)
  OBVIOUS
<1>2. PICK events : events = ConversionOrder(w, Held(b), b.last, through)
  OBVIOUS
<1>3. Held(b) \in SUBSET Key /\ b.last \in Nat /\ Shown(b) /\ Rising(b)
  BY BookIs DEF AtRest, Sound
<1>4. loaded \in SUBSET Key /\ Held(b) \subseteq loaded
  BY <1>1, <1>3, ReachedIs
<1>5. events \in Seq(Within(loaded))
  BY <1>1, <1>2, <1>3, ConversionsListed
<1>6. PICK days : days = Sessions(w, b.last, through)
  OBVIOUS
<1>7. PICK c : c = Carried(b, days, w, loaded, events, {}, Unmarked)
  OBVIOUS
<1>8. r = MarkOver(b, through, days, w, loaded, events)
  BY <1>1, <1>2, <1>6 DEF MarkThrough
<1>9. CASE \/ through \notin days
           \/ \E k \in loaded, d \in days : Priced(w.rows[k][d]) /\ ~w.rows[k][d].verified
  <2>1. r = [done |-> FALSE, book |-> b]
    BY <1>8, <1>9 DEF MarkOver
  <2>2. r.done = FALSE
    BY <2>1
  <2> QED BY <2>2
<1>10. CASE ~(\/ through \notin days
              \/ \E k \in loaded, d \in days : Priced(w.rows[k][d]) /\ ~w.rows[k][d].verified)
  <2>1. r = Kept(b, c)
    BY <1>7, <1>8, <1>10 DEF MarkOver
  <2>2. CASE c.refused
    <3>1. ~r.done
      BY <2>1, <2>2, KeptIs
    <3> QED BY <3>1
  <2>3. CASE ~c.refused
    <3>1. r.done /\ r.book = c
      BY <2>1, <2>3, KeptIs
    <3>2. MarkedBook(b, loaded) /\ ~b.refused
      BY <1>4 DEF AtRest, MarkedBook
    <3>3. {} \in SUBSET loaded /\ Unmarked \notin Nat
      BY TradingBookAssumption
    <3>4. AtRest(c) /\ c.terms = b.terms /\ c.last = through
      <4>1. PICK targets \in SUBSET loaded : targets = {}
        BY <3>3
      <4>2. PICK entry : entry = Unmarked /\ Entered(targets, entry)
        BY <3>3 DEF Entered
      <4>3. c = Carried(b, days, w, loaded, events, targets, entry)
        BY <1>7, <4>1, <4>2
      <4> QED BY <1>3, <1>4, <1>5, <1>6, <2>3, <3>2, <4>2, <4>3, CarriedRest
    <3> QED BY <3>1, <3>4 DEF Advanced
  <2> QED BY <2>2, <2>3
<1> QED BY <1>9, <1>10

SameDays(b, c) ==
  /\ Len(b.curve) = Len(c.curve) /\ b.last = c.last
  /\ \A j \in 1..Len(b.curve) : b.curve[j].day = c.curve[j].day

DaySet(b) == {b.curve[j].day : j \in 1..Len(b.curve)}

Span(w, z) == {d \in w.open \cup {Decision[1]} : Decision[1] <= d /\ d <= z}

Walked(w, c) == IF c = 0 THEN {} ELSE Span(w, Decision[c + 1])

Through(c) == IF c = 0 THEN Unmarked ELSE Decision[c + 1]

\* A book that is valued up to the exit of the c-th period.
Reaches(b, w, c) ==
  /\ b.last = Through(c) /\ Through(c) \in {Unmarked} \cup w.open
  /\ DaySet(b) = Walked(w, c)

LEMMA RestCurve ==
  ASSUME NEW b, AtRest(b)
  PROVE  /\ b \in Book /\ b.curve \in Seq(Point) /\ Len(b.curve) \in Nat
         /\ DOMAIN b.curve = 1..Len(b.curve)
         /\ \A j \in 1..Len(b.curve) : b.curve[j] \in Point /\ b.curve[j].day \in Int
         /\ b.last = Unmarked => Len(b.curve) = 0
         /\ b.last # Unmarked => b.last \in Nat
<1>1. b \in Book
  BY DEF AtRest, Sound
<1>2. b.curve \in Seq(Point)
  BY <1>1, BookIs
<1>3. Len(b.curve) \in Nat /\ DOMAIN b.curve = 1..Len(b.curve)
  BY <1>2
<1>4. \A j \in 1..Len(b.curve) : b.curve[j] \in Point /\ b.curve[j].day \in Int
  <2> TAKE j \in 1..Len(b.curve)
  <2>1. PICK s \in Seq(Point) : s = b.curve
    BY <1>2
  <2>2. s[j] \in Point
    BY <2>1
  <2>3. s[j].day \in Int
    BY <2>2 DEF Point
  <2> QED BY <2>1, <2>2, <2>3
<1>5. /\ b.last = Unmarked => Len(b.curve) = 0
      /\ b.last # Unmarked => b.last \in Nat
  BY DEF AtRest
<1> QED BY <1>1, <1>2, <1>3, <1>4, <1>5

LEMMA DaysRange ==
  ASSUME NEW b, AtRest(b)
  PROVE  Range(Days(b)) = DaySet(b)
<1>1. DOMAIN b.curve = 1..Len(b.curve)
  BY RestCurve
<1> QED BY <1>1 DEF Days, Range, DaySet

LEMMA DaysSame ==
  ASSUME NEW b, AtRest(b), NEW c, AtRest(c), SameDays(b, c)
  PROVE  Days(b) = Days(c)
<1>1. DOMAIN b.curve = 1..Len(b.curve) /\ DOMAIN c.curve = 1..Len(c.curve)
  BY RestCurve
<1> QED BY <1>1 DEF Days, SameDays

LEMMA DaysCounted ==
  ASSUME NEW b, AtRest(b)
  PROVE  Len(b.curve) = Cardinality(DaySet(b))
<1>1. PICK n \in Nat : n = Len(b.curve)
  BY RestCurve
<1>2. PICK f : f = [j \in 1..n |-> b.curve[j].day]
  OBVIOUS
<1>3. f \in [1..n -> DaySet(b)] /\ \A d \in DaySet(b) : \E j \in 1..n : f[j] = d
  BY <1>1, <1>2 DEF DaySet
<1>4. ASSUME NEW i \in 1..n, NEW j \in 1..n, f[i] = f[j] PROVE i = j
  <2>1. b.curve[i].day \in Int /\ b.curve[j].day \in Int /\ b.curve[i].day = b.curve[j].day
    BY <1>1, <1>2, <1>4, RestCurve
  <2>2. ~(i < j)
    <3>1. i < j => b.curve[i].day < b.curve[j].day
      BY <1>1 DEF AtRest, Rising
    <3> QED BY <2>1, <3>1
  <2>3. ~(j < i)
    <3>1. j < i => b.curve[j].day < b.curve[i].day
      BY <1>1 DEF AtRest, Rising
    <3> QED BY <2>1, <3>1
  <2> QED BY <2>2, <2>3
<1>5. f \in Bijection(1..n, DaySet(b))
  BY <1>3, <1>4 DEF Bijection, Injection, Surjection, IsInjective
<1>6. ExistsBijection(1..n, DaySet(b))
  BY <1>5 DEF ExistsBijection
<1>7. IsFiniteSet(1..n) /\ Cardinality(1..n) = n
  <2>1. IsFiniteSet(1..n) /\ Cardinality(1..n) = IF 1 > n THEN 0 ELSE n - 1 + 1
    BY FS_Interval
  <2>2. (IF 1 > n THEN 0 ELSE n - 1 + 1) = n
    OBVIOUS
  <2> QED BY <2>1, <2>2
<1>8. Cardinality(DaySet(b)) = Cardinality(1..n)
  BY <1>6, <1>7, FS_Bijection
<1> QED BY <1>1, <1>7, <1>8

LEMMA TimedSame ==
  ASSUME NEW b, AtRest(b), NEW c, AtRest(c), SameDays(b, c), NEW first \in Nat, NEW order \in Seq(Nat),
         NEW d, Timed(d, b, first, order), NEW e, Timed(e, c, first, order), d.last = e.last
  PROVE  SameDays(d, e)
<1>1. PICK m \in Nat : m = IF b.last = Unmarked THEN 1 ELSE Len(b.curve)
  BY RestCurve
<1>2. m = IF c.last = Unmarked THEN 1 ELSE Len(c.curve)
  BY <1>1 DEF SameDays
<1>3. PICK n \in Nat : n = Len(order)
  OBVIOUS
<1>4. /\ Len(d.curve) = m + n
      /\ \A j \in 1..m : d.curve[j].day = IF b.last = Unmarked THEN first ELSE b.curve[j].day
      /\ \A j \in 1..n : d.curve[m + j].day = order[j]
  BY <1>1, <1>3 DEF Timed
<1>5. /\ Len(e.curve) = m + n
      /\ \A j \in 1..m : e.curve[j].day = IF c.last = Unmarked THEN first ELSE c.curve[j].day
      /\ \A j \in 1..n : e.curve[m + j].day = order[j]
  BY <1>2, <1>3 DEF Timed
<1>6. ASSUME NEW j \in 1..(m + n) PROVE d.curve[j].day = e.curve[j].day
  <2>1. CASE j <= m
    <3>1. j \in 1..m
      BY <2>1
    <3>2. CASE b.last = Unmarked
      <4>1. c.last = Unmarked
        BY <3>2 DEF SameDays
      <4>2. d.curve[j].day = first
        BY <1>4, <3>1, <3>2
      <4>3. e.curve[j].day = first
        BY <1>5, <3>1, <4>1
      <4> QED BY <4>2, <4>3
    <3>3. CASE b.last # Unmarked
      <4>1. j \in 1..Len(b.curve)
        BY <1>1, <3>1, <3>3
      <4>2. b.curve[j].day = c.curve[j].day /\ c.last # Unmarked
        BY <3>3, <4>1 DEF SameDays
      <4> QED BY <1>4, <1>5, <3>1, <3>3, <4>2
    <3> QED BY <3>2, <3>3
  <2>2. CASE j > m
    <3>1. PICK k \in 1..n : j = m + k
      <4>1. j - m \in 1..n /\ j = m + (j - m)
        BY <1>1, <1>3, <2>2
      <4> QED BY <4>1
    <3> QED BY <1>4, <1>5, <3>1
  <2> QED BY <2>1, <2>2
<1> QED BY <1>4, <1>5, <1>6 DEF SameDays

LEMMA TimedDays ==
  ASSUME NEW b, AtRest(b), NEW first \in Nat, NEW S, NEW order, order \in Seq(S), Listing(order, S),
         NEW d, Timed(d, b, first, order)
  PROVE  DaySet(d) = (IF b.last = Unmarked THEN {first} ELSE DaySet(b)) \cup S
<1>1. PICK m \in Nat : m = IF b.last = Unmarked THEN 1 ELSE Len(b.curve)
  BY RestCurve
<1>2. PICK n \in Nat : n = Len(order)
  OBVIOUS
<1>3. /\ Len(d.curve) = m + n
      /\ \A j \in 1..m : d.curve[j].day = IF b.last = Unmarked THEN first ELSE b.curve[j].day
      /\ \A j \in 1..n : d.curve[m + j].day = order[j]
  BY <1>1, <1>2 DEF Timed
<1>4. DaySet(d) = {d.curve[j].day : j \in 1..m} \cup {d.curve[m + j].day : j \in 1..n}
  <2>1. DaySet(d) = {d.curve[j].day : j \in 1..(m + n)}
    BY <1>3 DEF DaySet
  <2>2. \A j \in 1..(m + n) : j \in 1..m \/ \E k \in 1..n : j = m + k
    <3> TAKE j \in 1..(m + n)
    <3>1. CASE j <= m
      BY <3>1
    <3>2. CASE j > m
      <4>1. j - m \in 1..n /\ j = m + (j - m)
        BY <1>1, <1>2, <3>2
      <4> QED BY <4>1
    <3> QED BY <3>1, <3>2
  <2>3. /\ \A j \in 1..m : j \in 1..(m + n)
        /\ \A j \in 1..n : m + j \in 1..(m + n)
    BY <1>1, <1>2
  <2> QED BY <2>1, <2>2, <2>3
<1>5. {d.curve[m + j].day : j \in 1..n} = S
  <2>1. \A j \in 1..n : order[j] \in S
    BY <1>2
  <2>2. \A x \in S : \E j \in 1..n : order[j] = x
    BY <1>2 DEF Listing
  <2>3. ASSUME NEW x PROVE x \in {d.curve[m + j].day : j \in 1..n} <=> x \in S
    <3>1. ASSUME NEW j \in 1..n, x = d.curve[m + j].day PROVE x \in S
      BY <1>3, <2>1, <3>1
    <3>2. ASSUME x \in S PROVE \E j \in 1..n : x = d.curve[m + j].day
      <4>1. PICK j \in 1..n : order[j] = x
        BY <2>2, <3>2
      <4> QED BY <1>3, <4>1
    <3> QED BY <3>1, <3>2
  <2> QED BY <2>3
<1>6. CASE b.last = Unmarked
  <2>1. {d.curve[j].day : j \in 1..m} = {first}
    <3>1. m = 1 /\ 1 \in 1..m
      BY <1>1, <1>6
    <3>2. \A j \in 1..m : d.curve[j].day = first
      BY <1>3, <1>6
    <3> QED BY <3>1, <3>2
  <2> QED BY <1>4, <1>5, <1>6, <2>1
<1>7. CASE b.last # Unmarked
  <2>1. {d.curve[j].day : j \in 1..m} = DaySet(b)
    BY <1>1, <1>3, <1>7 DEF DaySet
  <2> QED BY <1>4, <1>5, <1>7, <2>1
<1> QED BY <1>6, <1>7

LEMMA SpanOn ==
  ASSUME NEW w, History(w), NEW a \in Nat, NEW y \in Nat, NEW z \in Nat,
         a = Decision[1], a <= y, y < z, y = a \/ y \in w.open
  PROVE  /\ Span(w, y) \cup Sessions(w, y, z) = Span(w, z)
         /\ {a} = Span(w, a)
<1>1. w.open \subseteq Nat
  BY DEF History
<1>2. ASSUME NEW d PROVE d \in Span(w, y) \cup Sessions(w, y, z) <=> d \in Span(w, z)
  <2>1. CASE d \in w.open \cup {a}
    <3>1. d \in Nat
      BY <1>1, <2>1
    <3>2. d \in Sessions(w, y, z) <=> d \in w.open /\ y < d /\ d <= z
      BY DEF Sessions
    <3>3. d \in Span(w, y) <=> a <= d /\ d <= y
      BY <2>1 DEF Span
    <3>4. d \in Span(w, z) <=> a <= d /\ d <= z
      BY <2>1 DEF Span
    <3>5. d \in w.open \/ d <= y
      BY <2>1
    <3> QED BY <3>1, <3>2, <3>3, <3>4, <3>5
  <2>2. CASE d \notin w.open \cup {a}
    BY <2>2 DEF Span, Sessions
  <2> QED BY <2>1, <2>2
<1>3. ASSUME NEW d PROVE d \in {a} <=> d \in Span(w, a)
  <2>1. CASE d \in w.open \cup {a}
    <3>1. d \in Nat
      BY <1>1, <2>1
    <3>2. d \in Span(w, a) <=> a <= d /\ d <= a
      BY <2>1 DEF Span
    <3> QED BY <3>1, <3>2
  <2>2. CASE d \notin w.open \cup {a}
    BY <2>2 DEF Span
  <2> QED BY <2>1, <2>2
<1> QED BY <1>2, <1>3

LEMMA DecisionIs ==
  /\ Len(Decision) \in Nat /\ DOMAIN Decision = 1..Len(Decision)
  /\ \A i \in 1..Len(Decision) :
       Decision[i] \in Nat /\ Decision[1] \in Nat /\ Decision[1] <= Decision[i]
<1>1. Len(Decision) \in Nat /\ DOMAIN Decision = 1..Len(Decision)
  BY BacktestAssumption
<1>2. ASSUME NEW i \in 1..Len(Decision)
      PROVE  Decision[i] \in Nat /\ Decision[1] \in Nat /\ Decision[1] <= Decision[i]
  <2>1. 1 \in 1..Len(Decision)
    BY <1>1
  <2>2. Decision[i] \in Nat /\ Decision[1] \in Nat
    BY <2>1, BacktestAssumption
  <2>3. CASE i = 1
    BY <2>2, <2>3
  <2>4. CASE i # 1
    <3>1. 1 < i
      BY <1>1, <2>4
    <3>2. Decision[1] < Decision[i]
      BY <1>1, <2>1, <3>1, BacktestAssumption
    <3> QED BY <2>2, <3>2
  <2> QED BY <2>2, <2>3, <2>4
<1> QED BY <1>1, <1>2

LEMMA ReachesOn ==
  ASSUME NEW w, History(w), NEW b, AtRest(b), NEW c \in Nat, c + 2 \in 1..Len(Decision),
         Reaches(b, w, c), NEW r, r.done,
         Interval(r, b, Decision[c + 1], Decision[c + 2], w)
  PROVE  AtRest(r.book) /\ r.book.terms = b.terms /\ Reaches(r.book, w, c + 1)
<1>1. c + 1 \in 1..Len(Decision) /\ 1 \in 1..Len(Decision) /\ (c + 1) + 1 = c + 2 /\ c + 1 # 0
  BY DecisionIs
<1>2. PICK a, y, z \in Nat : /\ a = Decision[1] /\ y = Decision[c + 1] /\ z = Decision[c + 2]
                             /\ a <= y
  BY <1>1, DecisionIs
<1>3. /\ AtRest(r.book) /\ r.book.terms = b.terms /\ r.book.last = z /\ z \in w.open /\ y < z
      /\ Timed(r.book, b, y, InDayOrder(Sessions(w, y, z)))
  BY <1>2 DEF Interval, Advanced
<1>4. PICK S : S = Sessions(w, y, z)
  OBVIOUS
<1>5. PICK order : order = InDayOrder(S)
  OBVIOUS
<1>6. S \in SUBSET Nat /\ IsFiniteSet(S)
  BY <1>2, <1>4, SessionsAre
<1>7. Listing(order, S) /\ order \in Seq(S)
  BY <1>5, <1>6, DaysListed DEF Listing
<1>8. Timed(r.book, b, y, order)
  BY <1>3, <1>4, <1>5
<1>9. DaySet(r.book) = (IF b.last = Unmarked THEN {y} ELSE DaySet(b)) \cup S
  BY <1>2, <1>7, <1>8, TimedDays
<1>10. Through(c + 1) = z
  BY <1>1, <1>2 DEF Through
<1>11. DaySet(r.book) = Walked(w, c + 1)
  <2> SUFFICES DaySet(r.book) = Span(w, z)
    BY <1>1, <1>2 DEF Walked
  <2>1. CASE c = 0
    <3>1. b.last = Unmarked
      BY <2>1 DEF Reaches, Through
    <3>2. y = a
      BY <1>2, <2>1
    <3>3. Span(w, a) \cup S = Span(w, z) /\ {a} = Span(w, a)
      BY <1>2, <1>3, <1>4, <3>2, SpanOn
    <3> QED BY <1>9, <3>1, <3>2, <3>3
  <2>2. CASE c # 0
    <3>1. Through(c) = y
      BY <1>2, <2>2 DEF Through
    <3>2. y # Unmarked
      BY <1>2, TradingBookAssumption
    <3>3. b.last = y /\ y \in w.open /\ DaySet(b) = Span(w, y)
      BY <1>2, <2>2, <3>1, <3>2 DEF Reaches, Walked
    <3>4. Span(w, y) \cup S = Span(w, z)
      BY <1>2, <1>3, <1>4, <3>3, SpanOn
    <3> QED BY <1>9, <3>2, <3>3, <3>4
  <2> QED BY <2>1, <2>2
<1> QED BY <1>3, <1>10, <1>11 DEF Reaches

LEMMA StaySame ==
  ASSUME NEW w, History(w), NEW y \in Nat, NEW z \in Nat,
         NEW b, AtRest(b), NEW c, AtRest(c), SameDays(b, c),
         NEW r, r.done, Interval(r, b, y, z, w), NEW q, q.done, Interval(q, c, y, z, w)
  PROVE  SameDays(r.book, q.book)
<1>1. PICK S : S = Sessions(w, y, z)
  OBVIOUS
<1>2. PICK order : order = InDayOrder(S)
  OBVIOUS
<1>3. S \in SUBSET Nat /\ IsFiniteSet(S)
  BY <1>1, SessionsAre
<1>4. order \in Seq(Nat)
  <2>1. order \in Seq(S)
    BY <1>2, <1>3, DaysListed DEF Listing
  <2>2. ASSUME NEW j \in 1..Len(order) PROVE order[j] \in Nat
    <3>1. order[j] \in S
      BY <2>1
    <3> QED BY <1>3, <3>1
  <2>3. Len(order) \in Nat /\ order = [j \in 1..Len(order) |-> order[j]]
    BY <2>1
  <2> QED BY <2>2, <2>3
<1>5. Timed(r.book, b, y, order) /\ r.book.last = z
  BY <1>1, <1>2 DEF Interval
<1>6. Timed(q.book, c, y, order) /\ q.book.last = z
  BY <1>1, <1>2 DEF Interval
<1> QED BY <1>4, <1>5, <1>6, TimedSame

-----------------------------------------------------------------------------
Status == {"skipped_regime", "skipped_coverage", "skipped_discontinuity", "skipped_missing",
           "complete"}

BenchStatus == {"unpaired", "discontinuous", "complete", "missing"}

Line == [status : Status, benchmark : BenchStatus,
         start : [BookName -> Int], end : [BookName -> Int]]

RunShape ==
  /\ world \in World /\ phase \in {"idle", "running", "done", "aborted"}
  /\ books = [n \in BookName |-> books[n]]
  /\ contiguous \in BOOLEAN
  /\ bench = [book |-> bench.book, contiguous |-> bench.contiguous]
  /\ bench.contiguous \in BOOLEAN
  /\ periods \in Seq(Line) /\ DOMAIN periods \subseteq Period

\* Between two operations every book is whole and shows what it is worth.
BooksRest ==
  /\ \A n \in BookName : AtRest(books[n])
  /\ AtRest(bench.book) /\ bench.book.last \in {Unmarked} \cup world.open
  /\ AtRest(paper) /\ paper.last \in {Unmarked} \cup world.open

\* The first c periods are complete and no other one is.
Progress(c) ==
  /\ \A i \in 1..Len(periods) : periods[i].status = "complete" <=> i <= c
  /\ contiguous <=> c = Len(periods)
  /\ \A n \in BookName : Reaches(books[n], world, c)
  /\ \A n, m \in BookName : SameDays(books[n], books[m])
  /\ bench.contiguous => Reaches(bench.book, world, c)
  /\ \A i \in 2..c : periods[i].start = periods[i - 1].end
  /\ c > 0 => periods[c].end = Equities(books)

OnlyRefused == phase = "aborted" => ~world.valid \/ Len(Decision) < 2

BacktestIInv ==
  /\ RunShape /\ BooksRest /\ OnlyRefused
  /\ \E c \in 0..Len(periods) : Progress(c)

LEMMA BooksInvHolds ==
  ASSUME BacktestIInv PROVE BooksInv
<1> USE DEF BacktestIInv
<1>1. ASSUME NEW b \in AllBooks
      PROVE  AtRest(b) /\ b.last \in {Unmarked} \cup world.open
  <2>1. \A n \in BookName : AtRest(books[n]) /\ books[n].last \in {Unmarked} \cup world.open
    BY DEF BooksRest, Progress, Reaches
  <2> QED BY <1>1, <2>1 DEF AllBooks, BooksRest
<1>2. ASSUME NEW b \in AllBooks PROVE BookOK(b)
  <2>1. AtRest(b) /\ b \in Book
    BY <1>1 DEF AtRest, Sound
  <2>2. /\ b.cash \in Int /\ b.short \in Int /\ b.long \in Int /\ b.income \in Nat
        /\ b.tax \in Nat /\ b.costs \in Nat /\ Held(b) \subseteq Key
    BY <2>1, BookIs
  <2> QED BY <1>1, <2>1, <2>2 DEF BookOK, AtRest
<1>3. BacktestTypeOK
  <2>1. DOMAIN books = BookName
    BY DEF RunShape
  <2> QED BY <1>2, <2>1 DEF BacktestTypeOK, RunShape
<1>4. BooksBalance
  <2>1. ASSUME NEW b \in AllBooks
        PROVE  /\ b.cash + SumFunction([k \in Held(b) |-> Basis(b.lots[k])])
                    = Capital + b.short + b.long + b.income - b.tax
               /\ b.cash >= 0
    BY <1>1 DEF AtRest, Sound, Adds, AtCost, Held
  <2> QED BY <2>1 DEF BooksBalance
<1> QED BY <1>3, <1>4 DEF BooksInv

LEMMA PairedBooksHolds ==
  ASSUME BacktestIInv PROVE PairedBooks
<1>1. PICK c \in 0..Len(periods) : Progress(c)
  BY DEF BacktestIInv
<1>2. PICK completed : completed = {i \in DOMAIN periods : periods[i].status = "complete"}
  OBVIOUS
<1>3. PICK k \in Nat : k = Len(periods) /\ DOMAIN periods = 1..k
  BY DEF BacktestIInv, RunShape
<1>4. completed = 1..c
  <2>1. \A i \in 1..k : periods[i].status = "complete" <=> i <= c
    BY <1>1, <1>3 DEF Progress
  <2>2. \A i : i \in 1..c <=> i \in 1..k /\ i <= c
    BY <1>3
  <2> QED BY <1>2, <1>3, <2>1, <2>2
<1>5. Cardinality(completed) = c /\ (completed = {} <=> c = 0)
  <2>1. Cardinality(1..c) = IF 1 > c THEN 0 ELSE c - 1 + 1
    BY FS_Interval
  <2>2. (IF 1 > c THEN 0 ELSE c - 1 + 1) = c /\ (1..c = {} <=> c = 0)
    BY <1>3
  <2> QED BY <1>4, <2>1, <2>2
<1>6. PICK expected :
        expected = IF completed = {} THEN {}
                   ELSE {d \in world.open \cup {Decision[1]} :
                           /\ Decision[1] <= d
                           /\ d <= Decision[Cardinality(completed) + 1]}
  OBVIOUS
<1>9. expected = Walked(world, c)
  BY <1>5, <1>6 DEF Walked, Span
<1>10. ASSUME NEW n \in BookName
       PROVE  /\ Range(Days(books[n])) = expected
              /\ Len(books[n].curve) = Cardinality(expected)
  <2>1. AtRest(books[n]) /\ DaySet(books[n]) = expected
    BY <1>1, <1>9 DEF BacktestIInv, BooksRest, Progress, Reaches
  <2> QED BY <2>1, DaysRange, DaysCounted
<1>11. ASSUME bench.contiguous PROVE Range(Days(bench.book)) = expected
  <2>1. AtRest(bench.book) /\ DaySet(bench.book) = expected
    BY <1>1, <1>9, <1>11 DEF BacktestIInv, BooksRest, Progress, Reaches
  <2> QED BY <2>1, DaysRange
<1>12. phase = "aborted" => ~world.valid \/ Len(Decision) < 2
  BY DEF BacktestIInv, OnlyRefused
<1> QED BY <1>2, <1>6, <1>10, <1>11, <1>12 DEF PairedBooks

LEMMA ReportHolds ==
  ASSUME BacktestIInv PROVE ReportAddsUp
<1>1. PICK c \in 0..Len(periods) : Progress(c)
  BY DEF BacktestIInv
<1>2. PICK k \in Nat : k = Len(periods) /\ DOMAIN periods = 1..k
  BY DEF BacktestIInv, RunShape
<1>3. \A i \in 1..k : periods[i].status = "complete" <=> i <= c
  BY <1>1, <1>2 DEF Progress
<1> SUFFICES ASSUME NEW i \in 1..k, i <= c
             PROVE  /\ \A j \in 1..(i - 1) : periods[j].status = "complete"
                    /\ i > 1 => periods[i].start = periods[i - 1].end
                    /\ (i = k \/ periods[i + 1].status # "complete") =>
                         \A n \in BookName : periods[i].end[n] = Last(books[n].curve).equity
  BY <1>2, <1>3 DEF ReportAddsUp
<1>4. c \in 0..k /\ i \in 1..c
  BY <1>2
<1>5. ASSUME NEW j \in 1..(i - 1) PROVE periods[j].status = "complete"
  <2>1. j \in 1..k /\ j <= c
    BY <1>4
  <2> QED BY <1>3, <2>1
<1>6. ASSUME i > 1 PROVE periods[i].start = periods[i - 1].end
  <2>1. i \in 2..c
    BY <1>4, <1>6
  <2> QED BY <1>1, <2>1 DEF Progress
<1>7. ASSUME i = k \/ periods[i + 1].status # "complete", NEW n \in BookName
      PROVE  periods[i].end[n] = Last(books[n].curve).equity
  <2>1. i = c
    <3>1. CASE i = k
      BY <1>4, <3>1
    <3>2. CASE i # k
      <4>1. i + 1 \in 1..k
        BY <3>2
      <4>2. ~(i + 1 <= c)
        BY <1>3, <1>7, <3>2, <4>1
      <4> QED BY <1>4, <4>2
    <3> QED BY <3>1, <3>2
  <2>2. c > 0
    BY <1>4
  <2>3. periods[i].end[n] = Equity(books[n])
    BY <1>1, <2>1, <2>2 DEF Progress, Equities
  <2>4. books[n].last # Unmarked
    <3>1. books[n].last = Decision[c + 1]
      BY <1>1, <2>2 DEF Progress, Reaches, Through
    <3>2. c + 1 \in 1..Len(Decision)
      <4>1. 1..k \subseteq 1..(Len(Decision) - 1) /\ c \in 1..k
        BY <1>2, <1>4 DEF BacktestIInv, RunShape, Period
      <4>2. c \in 1..(Len(Decision) - 1)
        BY <4>1
      <4> QED BY <4>2, DecisionIs
    <3>3. Decision[c + 1] \in Nat
      BY <3>2, DecisionIs
    <3> QED BY <3>1, <3>3, TradingBookAssumption
  <2>5. Shown(books[n])
    BY <2>4 DEF BacktestIInv, BooksRest, AtRest
  <2> QED BY <2>3, <2>5 DEF Shown
<1> QED BY <1>5, <1>6, <1>7

BenchmarkKeeps(line, status, moved) ==
  /\ line.status \in BenchStatus
  /\ line.state = [book |-> line.state.book, contiguous |-> line.state.contiguous]
  /\ line.state.contiguous \in BOOLEAN
  /\ AtRest(line.state.book) /\ line.state.book.last \in {Unmarked} \cup world.open
  /\ line.state.contiguous =>
       status = "complete" /\ bench.contiguous /\ moved.done /\ line.state.book = moved.book

LEMMA BenchmarkIs ==
  ASSUME BacktestIInv, NEW status \in Status, NEW moved, NEW y, NEW z,
         status = "complete" => Interval(moved, bench.book, y, z, world)
  PROVE  BenchmarkKeeps(Benchmark(status, moved), status, moved)
<1>1. /\ bench = [book |-> bench.book, contiguous |-> bench.contiguous]
      /\ bench.contiguous \in BOOLEAN
      /\ AtRest(bench.book) /\ bench.book.last \in {Unmarked} \cup world.open
  BY DEF BacktestIInv, RunShape, BooksRest
<1>2. PICK line : line = Benchmark(status, moved)
  OBVIOUS
<1>3. PICK off : off = [bench EXCEPT !.contiguous = FALSE]
  OBVIOUS
<1>4. off = [book |-> bench.book, contiguous |-> FALSE]
  BY <1>1, <1>3
<1>5. off.book = bench.book /\ ~off.contiguous /\ off.contiguous \in BOOLEAN
  BY <1>4
<1>6. off = [book |-> off.book, contiguous |-> off.contiguous]
  BY <1>4
<1>7. CASE status # "complete"
  <2>1. line.status = "unpaired" /\ line.state = off
    BY <1>2, <1>3, <1>7 DEF Benchmark
  <2> QED BY <1>1, <1>2, <1>5, <1>6, <2>1 DEF BenchmarkKeeps, BenchStatus
<1>8. CASE status = "complete" /\ ~bench.contiguous
  <2>1. line.status = "discontinuous" /\ line.state = bench
    BY <1>2, <1>8 DEF Benchmark
  <2> QED BY <1>1, <1>2, <1>8, <2>1 DEF BenchmarkKeeps, BenchStatus
<1>9. CASE status = "complete" /\ bench.contiguous /\ ~moved.done
  <2>1. line.status = "missing" /\ line.state = off
    BY <1>2, <1>3, <1>9 DEF Benchmark
  <2> QED BY <1>1, <1>2, <1>5, <1>6, <2>1 DEF BenchmarkKeeps, BenchStatus
<1>10. CASE status = "complete" /\ bench.contiguous /\ moved.done
  <2>1. PICK on : on = [bench EXCEPT !.book = moved.book]
    OBVIOUS
  <2>2. line.status = "complete" /\ line.state = on
    BY <1>2, <1>10, <2>1 DEF Benchmark
  <2>3. on = [book |-> moved.book, contiguous |-> bench.contiguous]
    BY <1>1, <2>1
  <2>4. on.book = moved.book /\ on.contiguous \in BOOLEAN
    BY <1>1, <2>3
  <2>5. on = [book |-> on.book, contiguous |-> on.contiguous]
    BY <2>3
  <2>6. AtRest(on.book) /\ on.book.last \in {Unmarked} \cup world.open
    BY <1>10, <2>4 DEF Interval, Advanced
  <2> QED BY <1>2, <1>10, <2>2, <2>4, <2>5, <2>6 DEF BenchmarkKeeps, BenchStatus
<1> QED BY <1>7, <1>8, <1>9, <1>10

LEMMA PeriodAppended ==
  ASSUME BacktestIInv, NEW status \in Status, NEW after, NEW line, line.status \in BenchStatus,
         \A n \in BookName : AtRest(after[n]), after = [n \in BookName |-> after[n]],
         Len(periods) + 1 \in Period, Report(status, after, line)
  PROVE  /\ periods' \in Seq(Line) /\ DOMAIN periods' \subseteq Period
         /\ Len(periods) \in Nat /\ Len(periods') = Len(periods) + 1
         /\ \A i \in 1..Len(periods) : periods'[i] = periods[i]
         /\ periods'[Len(periods) + 1].status = status
         /\ periods'[Len(periods) + 1].start = Equities(books)
         /\ periods'[Len(periods) + 1].end = Equities(after)
<1>1. periods \in Seq(Line) /\ DOMAIN periods \subseteq Period
  BY DEF BacktestIInv, RunShape
<1>2. ASSUME NEW c, \A n \in BookName : AtRest(c[n]) PROVE Equities(c) \in [BookName -> Int]
  <2>1. ASSUME NEW n \in BookName PROVE Equity(c[n]) \in Int
    <3>1. AtRest(c[n])
      BY <1>2
    <3>2. c[n] \in Book /\ Held(c[n]) \subseteq DOMAIN c[n].mark
      BY <3>1 DEF AtRest, Sound
    <3> QED BY <3>2, EquityInt
  <2> QED BY <2>1 DEF Equities
<1>3. PICK start \in [BookName -> Int] : start = Equities(books)
  <2>1. \A n \in BookName : AtRest(books[n])
    BY DEF BacktestIInv, BooksRest
  <2> QED BY <1>2, <2>1
<1>4. PICK end \in [BookName -> Int] : end = Equities(after)
  BY <1>2
<1>5. PICK l \in Line : /\ l = [status |-> status, benchmark |-> line.status, start |-> start, end |-> end]
                        /\ l.status = status /\ l.start = start /\ l.end = end
  <2>1. PICK paired \in BenchStatus : paired = line.status
    OBVIOUS
  <2>2. [status |-> status, benchmark |-> paired, start |-> start, end |-> end] \in Line
    BY <1>3, <1>4, <2>1 DEF Line
  <2> QED BY <2>1, <2>2
<1>6. periods' = Append(periods, l)
  BY <1>3, <1>4, <1>5 DEF Report
<1>7. /\ periods' \in Seq(Line) /\ Len(periods) \in Nat /\ Len(periods') = Len(periods) + 1
      /\ periods'[Len(periods) + 1] = l
      /\ \A i \in 1..Len(periods) : periods'[i] = periods[i]
  BY <1>1, <1>5, <1>6
<1>8. DOMAIN periods' \subseteq Period
  <2>1. DOMAIN periods' = 1..(Len(periods) + 1) /\ DOMAIN periods = 1..Len(periods)
    BY <1>1, <1>7
  <2>2. \A i \in 1..(Len(periods) + 1) : i \in 1..Len(periods) \/ i = Len(periods) + 1
    BY <1>7
  <2> QED BY <1>1, <2>1, <2>2
<1> QED BY <1>3, <1>4, <1>5, <1>7, <1>8

\* A period that is not complete leaves the books, and ends the prefix.
LEMMA SkipKeeps ==
  ASSUME BacktestIInv, NEW status \in Status, status # "complete", NEW moved,
         Len(periods) + 1 \in Period, Report(status, books, Benchmark(status, moved))
  PROVE  BacktestIInv'
<1>1. PICK line : line = Benchmark(status, moved)
  OBVIOUS
<1>2. BenchmarkKeeps(line, status, moved)
  <2>1. status = "complete" => Interval(moved, bench.book, 0, 0, world)
    OBVIOUS
  <2> QED BY <1>1, <2>1, BenchmarkIs
<1>3. /\ books' = books /\ contiguous' = (contiguous /\ status = "complete")
      /\ bench' = line.state /\ UNCHANGED <<world, phase, paper>>
  BY <1>1 DEF Report
<1>4. /\ periods' \in Seq(Line) /\ DOMAIN periods' \subseteq Period
      /\ Len(periods) \in Nat /\ Len(periods') = Len(periods) + 1
      /\ \A i \in 1..Len(periods) : periods'[i] = periods[i]
      /\ periods'[Len(periods) + 1].status = status
  <2>1. line.status \in BenchStatus
    BY <1>2 DEF BenchmarkKeeps
  <2>2. (\A n \in BookName : AtRest(books[n])) /\ books = [n \in BookName |-> books[n]]
    BY DEF BacktestIInv, RunShape, BooksRest
  <2> QED BY <1>1, <2>1, <2>2, PeriodAppended
<1>5. RunShape'
  <2>1. /\ bench' = [book |-> bench'.book, contiguous |-> bench'.contiguous]
        /\ bench'.contiguous \in BOOLEAN
    BY <1>2, <1>3 DEF BenchmarkKeeps
  <2>2. contiguous' \in BOOLEAN
    BY <1>3
  <2> QED BY <1>3, <1>4, <2>1, <2>2 DEF BacktestIInv, RunShape, Period
<1>6. BooksRest'
  BY <1>2, <1>3 DEF BacktestIInv, BooksRest, BenchmarkKeeps
<1>7. OnlyRefused'
  BY <1>3 DEF BacktestIInv, OnlyRefused
<1>8. PICK c \in 0..Len(periods) : Progress(c)
  BY DEF BacktestIInv
<1>9. PICK k \in Nat : k = Len(periods)
  BY <1>4
<1>10. Progress(c)'
  <2>1. ASSUME NEW i \in 1..(k + 1) PROVE periods'[i].status = "complete" <=> i <= c
    <3>1. CASE i = k + 1
      BY <1>4, <1>8, <1>9, <3>1
    <3>2. CASE i # k + 1
      <4>1. i \in 1..k
        BY <3>2
      <4> QED BY <1>4, <1>8, <1>9, <4>1 DEF Progress
    <3> QED BY <3>1, <3>2
  <2>2. contiguous' <=> c = k + 1
    <3>1. ~contiguous'
      BY <1>3
    <3>2. c # k + 1
      BY <1>8, <1>9
    <3> QED BY <3>1, <3>2
  <2>3. ~bench'.contiguous
    BY <1>2, <1>3 DEF BenchmarkKeeps
  <2>4. ASSUME NEW i \in 2..c PROVE periods'[i].start = periods'[i - 1].end
    <3>1. i \in 1..k /\ i - 1 \in 1..k
      BY <1>8, <1>9
    <3> QED BY <1>4, <1>8, <1>9, <3>1 DEF Progress
  <2>5. c > 0 => periods'[c].end = Equities(books)
    <3>1. c > 0 => c \in 1..k
      BY <1>8, <1>9
    <3> QED BY <1>4, <1>8, <1>9, <3>1 DEF Progress
  <2>6. Equities(books)' = Equities(books)
    BY <1>3 DEF Equities
  <2>7. /\ \A n \in BookName : Reaches(books[n], world, c)
        /\ \A n, m \in BookName : SameDays(books[n], books[m])
    BY <1>8 DEF Progress
  <2> QED BY <1>3, <1>4, <1>9, <2>1, <2>2, <2>3, <2>4, <2>5, <2>6, <2>7 DEF Progress
<1>11. c \in 0..Len(periods')
  BY <1>4, <1>8
<1> QED BY <1>5, <1>6, <1>7, <1>10, <1>11 DEF BacktestIInv

\* How the four books came out of the i-th period.
Outcomes(cand, i) ==
  \A n \in BookName : Interval(cand[n], books[n], Decision[i], ExitDay(i), world)

\* A period that is complete moves every book to its exit.
LEMMA CompleteKeeps ==
  ASSUME BacktestIInv, contiguous, NEW i, i = Len(periods) + 1, i \in Period,
         NEW cand, Outcomes(cand, i), \A n \in BookName : cand[n].done,
         NEW after, after = [n \in BookName |-> cand[n].book],
         NEW status \in Status, status = "complete", NEW moved,
         Interval(moved, bench.book, Decision[i], ExitDay(i), world),
         Report(status, after, Benchmark(status, moved))
  PROVE  BacktestIInv'
<1>1. PICK line : line = Benchmark(status, moved)
  OBVIOUS
<1>2. BenchmarkKeeps(line, status, moved)
  BY <1>1, BenchmarkIs
<1>3. /\ books' = after /\ contiguous' = (contiguous /\ status = "complete")
      /\ bench' = line.state /\ UNCHANGED <<world, phase, paper>>
  BY <1>1 DEF Report
<1>4. PICK k \in Nat : k = Len(periods)
  BY DEF BacktestIInv, RunShape
<1>5. Progress(k)
  BY <1>4 DEF BacktestIInv, Progress
<1>6. i = k + 1 /\ k + 2 \in 1..Len(Decision) /\ i + 1 = k + 2 /\ k + 1 \in 1..Len(Decision)
  BY <1>4, DecisionIs DEF Period
<1>7. History(world)
  BY BacktestAssumption DEF BacktestIInv, RunShape
<1>8. PICK y, z \in Nat : y = Decision[k + 1] /\ z = Decision[k + 2]
  BY <1>6, DecisionIs
<1>9. /\ \A n \in BookName : Interval(cand[n], books[n], y, z, world)
      /\ Interval(moved, bench.book, y, z, world)
  BY <1>6, <1>8 DEF Outcomes, ExitDay
<1>10. ASSUME NEW n \in BookName
       PROVE  AtRest(after[n]) /\ Reaches(after[n], world, k + 1)
  <2>1. AtRest(books[n]) /\ Reaches(books[n], world, k)
    BY <1>5 DEF BacktestIInv, BooksRest, Progress
  <2>2. AtRest(cand[n].book) /\ Reaches(cand[n].book, world, k + 1)
    BY <1>6, <1>7, <1>8, <1>9, <2>1, ReachesOn
  <2> QED BY <2>2
<1>11. ASSUME NEW n \in BookName, NEW m \in BookName
       PROVE  SameDays(after[n], after[m])
  <2>1. AtRest(books[n]) /\ AtRest(books[m]) /\ SameDays(books[n], books[m])
    BY <1>5 DEF BacktestIInv, BooksRest, Progress
  <2>2. SameDays(cand[n].book, cand[m].book)
    BY <1>7, <1>8, <1>9, <2>1, StaySame
  <2> QED BY <2>2
<1>12. /\ periods' \in Seq(Line) /\ DOMAIN periods' \subseteq Period
       /\ Len(periods') = k + 1
       /\ \A j \in 1..k : periods'[j] = periods[j]
       /\ periods'[k + 1].status = status
       /\ periods'[k + 1].start = Equities(books)
       /\ periods'[k + 1].end = Equities(after)
  <2>1. line.status \in BenchStatus
    BY <1>2 DEF BenchmarkKeeps
  <2>2. (\A n \in BookName : AtRest(after[n])) /\ after = [n \in BookName |-> after[n]]
    BY <1>10
  <2>3. Len(periods) + 1 \in Period
    OBVIOUS
  <2> QED BY <1>1, <1>4, <2>1, <2>2, <2>3, PeriodAppended
<1>13. RunShape'
  <2>1. /\ bench' = [book |-> bench'.book, contiguous |-> bench'.contiguous]
        /\ bench'.contiguous \in BOOLEAN
    BY <1>2, <1>3 DEF BenchmarkKeeps
  <2>2. contiguous' \in BOOLEAN /\ books' = [n \in BookName |-> books'[n]]
    BY <1>3
  <2> QED BY <1>3, <1>12, <2>1, <2>2 DEF BacktestIInv, RunShape, Period
<1>14. BooksRest'
  BY <1>2, <1>3, <1>10 DEF BacktestIInv, BooksRest, BenchmarkKeeps
<1>15. OnlyRefused'
  BY <1>3 DEF BacktestIInv, OnlyRefused
<1>16. Progress(k + 1)'
  <2>1. ASSUME NEW j \in 1..(k + 1) PROVE periods'[j].status = "complete" <=> j <= k + 1
    <3>1. CASE j = k + 1
      BY <1>12, <3>1
    <3>2. CASE j # k + 1
      <4>1. j \in 1..k
        BY <3>2
      <4>2. periods[j].status = "complete"
        BY <1>4, <1>5, <4>1 DEF Progress
      <4> QED BY <1>12, <4>1, <4>2
    <3> QED BY <3>1, <3>2
  <2>2. contiguous'
    BY <1>3
  <2>3. bench'.contiguous => Reaches(bench'.book, world, k + 1)
    <3> SUFFICES ASSUME bench'.contiguous PROVE Reaches(bench'.book, world, k + 1)
      OBVIOUS
    <3>1. bench.contiguous /\ moved.done /\ bench'.book = moved.book
      BY <1>2, <1>3 DEF BenchmarkKeeps
    <3>2. AtRest(bench.book) /\ Reaches(bench.book, world, k)
      BY <1>5, <3>1 DEF BacktestIInv, BooksRest, Progress
    <3>3. Reaches(moved.book, world, k + 1)
      BY <1>6, <1>7, <1>8, <1>9, <3>1, <3>2, ReachesOn
    <3> QED BY <3>1, <3>3
  <2>4. ASSUME NEW j \in 2..(k + 1) PROVE periods'[j].start = periods'[j - 1].end
    <3>1. CASE j = k + 1
      <4>1. j - 1 = k /\ k \in 1..k /\ k > 0
        BY <3>1
      <4>2. periods[k].end = Equities(books)
        BY <1>5, <4>1 DEF Progress
      <4> QED BY <1>12, <3>1, <4>1, <4>2
    <3>2. CASE j # k + 1
      <4>1. j \in 2..k /\ j \in 1..k /\ j - 1 \in 1..k
        BY <3>2
      <4> QED BY <1>5, <1>12, <4>1 DEF Progress
    <3> QED BY <3>1, <3>2
  <2>5. Equities(books)' = Equities(after)
    BY <1>3 DEF Equities
  <2>6. /\ \A n \in BookName : Reaches(books'[n], world', k + 1)
        /\ \A n, m \in BookName : SameDays(books'[n], books'[m])
    BY <1>3, <1>10, <1>11
  <2> QED BY <1>3, <1>12, <2>1, <2>2, <2>3, <2>4, <2>5, <2>6 DEF Progress
<1>17. k + 1 \in 0..Len(periods')
  BY <1>12
<1> QED BY <1>13, <1>14, <1>15, <1>16, <1>17 DEF BacktestIInv

LEMMA BacktestInitHolds ==
  ASSUME BacktestInit PROVE BacktestIInv
<1>1. /\ world \in World /\ phase = "idle" /\ contiguous = TRUE /\ periods = <<>>
      /\ books = [n \in BookName |-> NewBook(IF Net(n) THEN Terms ELSE Gross)]
      /\ bench = [book |-> NewBook(Gross), contiguous |-> TRUE]
      /\ paper = NewBook(PaperTerms)
  BY DEF BacktestInit
<1>2. ASSUME NEW terms \in Rates, NEW b, b = NewBook(terms)
      PROVE  AtRest(b) /\ b.last = Unmarked /\ b.curve = <<>>
  <2>1. Sound(b) /\ Held(b) = {} /\ b.curve = <<>> /\ b.last = Unmarked /\ ~b.refused
    BY <1>2, NewSound
  <2>2. Rising(b)
    BY <2>1 DEF Rising
  <2> QED BY <2>1, <2>2 DEF AtRest
<1>3. Terms \in Rates /\ Gross \in Rates /\ PaperTerms \in Rates
  BY BacktestAssumption DEF Rates, Gross
<1>4. ASSUME NEW n \in BookName
      PROVE  AtRest(books[n]) /\ books[n].last = Unmarked /\ books[n].curve = <<>>
  <2>1. PICK terms \in Rates : terms = IF Net(n) THEN Terms ELSE Gross
    BY <1>3
  <2>2. books[n] = NewBook(terms)
    BY <1>1, <2>1
  <2> QED BY <1>2, <2>2
<1>5. AtRest(bench.book) /\ bench.book.last = Unmarked /\ bench.book.curve = <<>>
  <2>1. bench.book = NewBook(Gross)
    BY <1>1
  <2> QED BY <1>2, <1>3, <2>1
<1>6. AtRest(paper) /\ paper.last = Unmarked
  BY <1>1, <1>2, <1>3
<1>7. ASSUME NEW b, b.last = Unmarked, b.curve = <<>>
      PROVE  Reaches(b, world, 0)
  <2>1. DaySet(b) = {}
    BY <1>7 DEF DaySet
  <2> QED BY <1>7, <2>1 DEF Reaches, Through, Walked
<1>8. RunShape
  <2>1. <<>> \in Seq(Line) /\ DOMAIN <<>> = {}
    OBVIOUS
  <2>2. books = [n \in BookName |-> books[n]]
    BY <1>1
  <2> QED BY <1>1, <2>1, <2>2 DEF RunShape
<1>9. BooksRest
  BY <1>4, <1>5, <1>6 DEF BooksRest
<1>10. Len(periods) = 0
  BY <1>1
<1>11. Progress(0)
  <2>1. \A n, m \in BookName : SameDays(books[n], books[m])
    BY <1>4 DEF SameDays
  <2>2. \A n \in BookName : Reaches(books[n], world, 0)
    BY <1>4, <1>7
  <2>3. Reaches(bench.book, world, 0)
    BY <1>5, <1>7
  <2> QED BY <1>1, <1>10, <2>1, <2>2, <2>3 DEF Progress
<1>12. OnlyRefused
  BY <1>1 DEF OnlyRefused
<1> QED BY <1>8, <1>9, <1>10, <1>11, <1>12 DEF BacktestIInv

LEMMA SelectedAre == \A board, weights : Selected(board, weights) \subseteq Ticker
  BY DEF Selected, Eligible

LEMMA SimulatedKeeps ==
  ASSUME BacktestIInv, contiguous, NEW i, i = Len(periods) + 1, i \in Period,
         NEW priority \in SUBSET Ticker, NEW fixed \in SUBSET Ticker,
         NEW sim, sim = Simulated(Candidates(priority, fixed, i)),
         Paired(IF sim.done THEN "complete" ELSE "skipped_missing", sim.books, i)
  PROVE  BacktestIInv'
<1>1. PICK cand : cand = Candidates(priority, fixed, i)
  OBVIOUS
<1>2. History(world)
  BY BacktestAssumption DEF BacktestIInv, RunShape
<1>3. Decision[i] \in Nat
  <2>1. i \in 1..Len(Decision)
    BY DecisionIs DEF Period
  <2> QED BY <2>1, DecisionIs
<1>4. Outcomes(cand, i)
  <2>1. ASSUME NEW n \in BookName
        PROVE  Interval(cand[n], books[n], Decision[i], ExitDay(i), world)
    <3>1. PICK picks \in SUBSET Ticker :
            picks = IF n \in {"regime", "regime_gross"} THEN priority ELSE fixed
      OBVIOUS
    <3>2. cand[n] = Advance(books[n], picks, Decision[i], EntryDay(i), ExitDay(i), world)
      BY <1>1, <3>1 DEF Candidates, Moved
    <3>3. AtRest(books[n])
      BY DEF BacktestIInv, BooksRest
    <3> QED BY <1>2, <1>3, <3>2, <3>3, AdvanceSound
  <2> QED BY <2>1 DEF Outcomes
<1>5. PICK moved : moved = Advance(bench.book, {Index}, Decision[i], EntryDay(i), ExitDay(i), world)
  OBVIOUS
<1>6. Interval(moved, bench.book, Decision[i], ExitDay(i), world)
  <2>1. {Index} \in SUBSET Ticker
    BY BacktestAssumption
  <2>2. AtRest(bench.book)
    BY DEF BacktestIInv, BooksRest
  <2> QED BY <1>2, <1>3, <1>5, <2>1, <2>2, AdvanceSound
<1>7. CASE \A n \in BookName : cand[n].done
  <2>1. PICK after : after = [n \in BookName |-> cand[n].book]
    OBVIOUS
  <2>2. sim = [done |-> TRUE, books |-> after]
    BY <1>1, <1>7, <2>1 DEF Simulated
  <2>3. sim.done /\ sim.books = after
    BY <2>2
  <2>4. PICK status \in Status : status = "complete"
    BY DEF Status
  <2>5. Report(status, after, Benchmark(status, moved))
    BY <1>5, <2>3, <2>4 DEF Paired
  <2> QED BY <1>4, <1>6, <1>7, <2>1, <2>4, <2>5, CompleteKeeps
<1>8. CASE ~\A n \in BookName : cand[n].done
  <2>1. sim = [done |-> FALSE, books |-> books]
    BY <1>1, <1>8 DEF Simulated
  <2>2. ~sim.done /\ sim.books = books
    BY <2>1
  <2>3. PICK status \in Status : status = "skipped_missing" /\ status # "complete"
    BY DEF Status
  <2>4. Report(status, books, Benchmark(status, moved))
    BY <1>5, <2>2, <2>3 DEF Paired
  <2>5. Len(periods) + 1 \in Period
    OBVIOUS
  <2> QED BY <2>3, <2>4, <2>5, SkipKeeps
<1> QED BY <1>7, <1>8

LEMMA SkippedKeeps ==
  ASSUME BacktestIInv, NEW status \in Status, status # "complete",
         Len(periods) + 1 \in Period, Skipped(status)
  PROVE  BacktestIInv'
<1>1. PICK moved : moved = [done |-> FALSE]
  OBVIOUS
<1>2. Report(status, books, Benchmark(status, moved))
  BY <1>1 DEF Skipped
<1> QED BY <1>2, SkipKeeps

LEMMA RunPeriodKeeps ==
  ASSUME BacktestIInv, NEW regime \in Regime, NEW board \in Board, RunPeriod(regime, board)
  PROVE  BacktestIInv'
<1>1. PICK i : i = Len(periods) + 1
  OBVIOUS
<1>2. PICK status : status = Evaluated(regime, board)
  OBVIOUS
<1>3. /\ i \in Period /\ Len(periods) + 1 \in Period
      /\ \/ status # "ready" /\ Skipped(status)
         \/ status = "ready" /\ ~contiguous /\ Skipped("skipped_discontinuity")
         \/ /\ status = "ready" /\ contiguous
            /\ \E sim \in {Simulated(Candidates(Selected(board, Weights(regime)),
                                               Selected(board, Baseline), i))} :
                 Paired(IF sim.done THEN "complete" ELSE "skipped_missing", sim.books, i)
  BY <1>1, <1>2 DEF RunPeriod
<1>4. CASE status # "ready" /\ Skipped(status)
  <2>1. status \in Status /\ status # "complete"
    BY <1>2, <1>4 DEF Evaluated, Status
  <2> QED BY <1>3, <1>4, <2>1, SkippedKeeps
<1>5. CASE status = "ready" /\ ~contiguous /\ Skipped("skipped_discontinuity")
  <2>1. PICK skip \in Status : skip = "skipped_discontinuity" /\ skip # "complete"
    BY DEF Status
  <2>2. Skipped(skip)
    BY <1>5, <2>1
  <2> QED BY <1>3, <2>1, <2>2, SkippedKeeps
<1>6. CASE /\ status = "ready" /\ contiguous
           /\ \E sim \in {Simulated(Candidates(Selected(board, Weights(regime)),
                                               Selected(board, Baseline), i))} :
                 Paired(IF sim.done THEN "complete" ELSE "skipped_missing", sim.books, i)
  <2>1. PICK priority, fixed \in SUBSET Ticker :
          priority = Selected(board, Weights(regime)) /\ fixed = Selected(board, Baseline)
    BY SelectedAre
  <2>2. PICK sim : /\ sim = Simulated(Candidates(priority, fixed, i))
                   /\ Paired(IF sim.done THEN "complete" ELSE "skipped_missing", sim.books, i)
    BY <1>6, <2>1
  <2> QED BY <1>1, <1>3, <1>6, <2>2, SimulatedKeeps
<1> QED BY <1>3, <1>4, <1>5, <1>6

\* Only the phase changes, and it is refused only for a reason.
LEMMA PhaseKeeps ==
  ASSUME BacktestIInv, UNCHANGED <<world, books, contiguous, bench, periods, paper>>,
         phase' \in {"running", "done", "aborted"}, OnlyRefused'
  PROVE  BacktestIInv'
<1>1. RunShape'
  BY DEF BacktestIInv, RunShape, Period
<1>2. BooksRest'
  BY DEF BacktestIInv, BooksRest
<1>3. PICK c \in 0..Len(periods) : Progress(c)
  BY DEF BacktestIInv
<1>4. Progress(c)' /\ c \in 0..Len(periods')
  BY <1>3 DEF Progress, Equities
<1> QED BY <1>1, <1>2, <1>4 DEF BacktestIInv

LEMMA PaperKeeps ==
  ASSUME BacktestIInv, AtRest(paper'), paper'.last \in {Unmarked} \cup world.open,
         UNCHANGED <<world, phase, books, contiguous, bench, periods>>
  PROVE  BacktestIInv'
<1>1. RunShape' /\ OnlyRefused'
  BY DEF BacktestIInv, RunShape, OnlyRefused, Period
<1>2. BooksRest'
  BY DEF BacktestIInv, BooksRest
<1>3. PICK c \in 0..Len(periods) : Progress(c)
  BY DEF BacktestIInv
<1>4. Progress(c)' /\ c \in 0..Len(periods')
  BY <1>3 DEF Progress, Equities
<1> QED BY <1>1, <1>2, <1>4 DEF BacktestIInv

LEMMA BacktestStep ==
  ASSUME BacktestIInv, [BacktestNext]_backtestVars PROVE BacktestIInv'
<1>1. CASE Start
  <2>1. phase' \in {"running", "done", "aborted"} /\ OnlyRefused'
    <3>1. Len(Decision) >= 2 \/ Len(Decision) < 2
      BY DecisionIs
    <3> QED BY <1>1, <3>1 DEF Start, OnlyRefused
  <2> QED BY <1>1, <2>1, PhaseKeeps DEF Start
<1>2. CASE \E r \in Regime, b \in Board : RunPeriod(r, b)
  BY <1>2, RunPeriodKeeps
<1>3. CASE Finish
  <2>1. Aligned
    <3>1. PICK c \in 0..Len(periods) : Progress(c)
      BY DEF BacktestIInv
    <3>2. ASSUME NEW n \in BookName, NEW m \in BookName PROVE Days(books[n]) = Days(books[m])
      BY <3>1, DaysSame DEF BacktestIInv, BooksRest, Progress
    <3> QED BY <3>2 DEF Aligned, BookName
  <2>2. phase' = "done" /\ UNCHANGED <<world, books, contiguous, bench, periods, paper>>
    BY <1>3, <2>1 DEF Finish
  <2>3. OnlyRefused'
    BY <2>2 DEF OnlyRefused
  <2> QED BY <2>2, <2>3, PhaseKeeps
<1>4. CASE \E i \in Period, t \in {p \in SUBSET Ticker : Cardinality(p) = TopN} : PaperExecute(i, t)
  <2>1. PICK i \in Period, t \in SUBSET Ticker : PaperExecute(i, t)
    BY <1>4
  <2>2. Decision[i] \in Nat
    <3>1. i \in 1..Len(Decision)
      BY DecisionIs DEF Period
    <3> QED BY <3>1, DecisionIs
  <2>3. PICK moved : moved = Advance(paper, t, Decision[i], EntryDay(i), EntryDay(i), world)
    OBVIOUS
  <2>4. /\ moved.done /\ paper' = moved.book
        /\ UNCHANGED <<world, phase, books, contiguous, bench, periods>>
    BY <2>1, <2>3 DEF PaperExecute, Booking
  <2>5. AtRest(paper) /\ History(world)
    BY BacktestAssumption DEF BacktestIInv, BooksRest, RunShape
  <2>6. Interval(moved, paper, Decision[i], EntryDay(i), world)
    BY <2>2, <2>3, <2>5, AdvanceSound
  <2>7. AtRest(paper') /\ paper'.last \in {Unmarked} \cup world.open
    BY <2>4, <2>6 DEF Interval, Advanced
  <2> QED BY <2>4, <2>7, PaperKeeps
<1>5. CASE \E d \in world.open : PaperMark(d)
  <2>1. PICK d \in world.open : PaperMark(d)
    BY <1>5
  <2>2. PICK moved : moved = MarkThrough(paper, d, world)
    OBVIOUS
  <2>3. /\ moved.done /\ paper' = moved.book /\ paper.last # Unmarked /\ paper.last < d
        /\ UNCHANGED <<world, phase, books, contiguous, bench, periods>>
    BY <2>1, <2>2 DEF PaperMark, Booking
  <2>4. AtRest(paper) /\ History(world)
    BY BacktestAssumption DEF BacktestIInv, BooksRest, RunShape
  <2>5. Advanced(moved.book, paper) /\ moved.book.last = d
    BY <2>2, <2>3, <2>4, MarkSound
  <2>6. AtRest(paper') /\ paper'.last \in {Unmarked} \cup world.open
    BY <2>3, <2>5 DEF Advanced
  <2> QED BY <2>3, <2>6, PaperKeeps
<1>6. CASE UNCHANGED backtestVars
  <2>1. UNCHANGED <<world, phase, books, contiguous, bench, periods, paper>>
    BY <1>6 DEF backtestVars
  <2>2. AtRest(paper') /\ paper'.last \in {Unmarked} \cup world.open
    BY <2>1 DEF BacktestIInv, BooksRest
  <2> QED BY <2>1, <2>2, PaperKeeps
<1> QED BY <1>1, <1>2, <1>3, <1>4, <1>5, <1>6 DEF BacktestNext

\* The inductive invariant of the backtest and of the paper account's book.
THEOREM BacktestHolds == BacktestSpec => []BacktestIInv
<1>1. BacktestInit => BacktestIInv
  BY BacktestInitHolds
<1>2. BacktestIInv /\ [BacktestNext]_backtestVars => BacktestIInv'
  BY BacktestStep
<1> QED BY <1>1, <1>2, PTL DEF BacktestSpec

\* No money appears or disappears in a book, through any sequence of sessions,
\* conversions, splits, dividends, partial sales, purchases and taxes, and no
\* cash is borrowed (PortfolioBook.advance_period).
THEOREM BooksTrue == BacktestSpec => []BooksInv
<1>1. BacktestIInv => BooksInv
  BY BooksInvHolds
<1> QED BY <1>1, BacktestHolds, PTL

\* The compared books are valued on the same sessions, and a run is refused for
\* its data or its range only (run_qv_policy_backtest, _combine_equity_curves).
THEOREM PairedTrue == BacktestSpec => []PairedBooks
<1>1. BacktestIInv => PairedBooks
  BY PairedBooksHolds
<1> QED BY <1>1, BacktestHolds, PTL

\* The completed periods are an unbroken prefix, chain, and end with the curve.
THEOREM ReportTrue == BacktestSpec => []ReportAddsUp
<1>1. BacktestIInv => ReportAddsUp
  BY ReportHolds
<1> QED BY <1>1, BacktestHolds, PTL

==============================================================================
