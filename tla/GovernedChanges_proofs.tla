------------------------ MODULE GovernedChanges_proofs ------------------------
(***************************************************************************)
(* Proofs about the two changes of the live state that are prepared,       *)
(* reviewed and activated: the rollover of the forward trial and the       *)
(* change of the index.                                                    *)
(*                                                                         *)
(* ForwardRollover, for an operator who starts recovery only when no       *)
(* activation runs, and an activation that raises nothing after its        *)
(* verdict.                                                                *)
(*                                                                         *)
(* The lease alone does not exclude: a rollback runs without it, and a     *)
(* recovery acts on a journal it read before it had it.  What excludes is  *)
(* that an undecided attempt is unique (OneUndecided), that it has at most *)
(* one process that works on it (NoSharing), and what ProcInv says of the  *)
(* active trial at each step of that process.                              *)
(***************************************************************************)
EXTENDS ForwardRollover, UniverseCoverage, FiniteSetTheorems, TLAPS, WellFoundedInduction

Undecided(a) == a \in Directories /\ ~Terminal(journal[a])

Activating(p) == proc[p].pc \in ActivationStep
RollingBack(p) ==
  proc[p].pc \in RollbackStep \/ (proc[p].pc = "remove" /\ proc[p].todo = {})
\* p started the attempt it works on.
Owner(p) == Activating(p) \/ RollingBack(p)

\* Which step holds the lease and works on which attempt.
Place(p) ==
  LET s == proc[p]  a == s.attempt IN
  /\ s.pc \in {"idle", "scanned"} => lease # p /\ a = 0 /\ s.n = 1
  /\ s.pc = "idle" => s.todo = {}
  /\ s.pc = "reconcile" => lease = p /\ a = 0 /\ s.n = 1
  /\ s.pc = "finish" => lease = p /\ a \in s.todo
  /\ s.pc = "remove" /\ s.todo # {} => lease = p /\ a \in s.todo
  /\ Activating(p) => lease = p /\ a \in Attempt /\ s.todo = {}
  /\ RollingBack(p) => lease # p /\ a \in Attempt /\ s.todo = {}
  /\ s.pc \in RollbackStep => s.n = 1
  /\ s.pc # "close" /\ s.todo \subseteq Directories

\* What the step can rely on.
Grounds(p) ==
  LET s == proc[p]  a == s.attempt IN
  /\ s.pc = "prepare" => /\ active = Predecessor /\ a \notin Directories
                         /\ \A b \in Attempt : ~Undecided(b)
  /\ s.pc \in {"publish", "swap"} => active = Predecessor /\ "prepared" \in journal[a]
  /\ s.pc = "swap" => "outputs_published" \in journal[a]
  /\ s.pc \in ActivationStep \ {"prepare", "return"} => Undecided(a)
  /\ s.pc \in {"record_swap", "verify", "finish", "restore"} => active = a
  /\ RollingBack(p) => Undecided(a)
  /\ s.pc = "rollback" => active \in {Predecessor, a}
  /\ s.pc = "remove" => /\ active = Predecessor
                        /\ s.n > 1 => output["staged_trial"] # a
                        /\ s.n > 2 => output["successor_proposal"] # a

NoSharing ==
  \A p, q \in Process :
    p # q /\ Owner(p) => proc[q].attempt # proc[p].attempt /\ proc[p].attempt \notin proc[q].todo

OneUndecided == \A a, b \in Attempt : Undecided(a) /\ Undecided(b) => a = b

UndecidedActive == \A a \in Attempt : Undecided(a) => active \in {Predecessor, a}

VerifiedActive == \A a \in Attempt : "verified" \in journal[a] => active = a

IInv ==
  /\ RolloverInv
  /\ \A p \in Process : Place(p) /\ Grounds(p)
  /\ NoSharing /\ OneUndecided /\ UndecidedActive /\ VerifiedActive

Premises == PatientOperator /\ "return" \notin FailingSteps

-----------------------------------------------------------------------------
(* Sets of attempts, and the constants.                                    *)

LEMMA Kinds ==
  /\ Predecessor \notin Attempt /\ Absent \notin Attempt /\ Torn \notin Attempt
  /\ \A a \in Attempt : a # 0
  BY RolloverAssumption DEF Predecessor, Absent, Torn

LEMMA MinIn == ASSUME NEW S \in SUBSET Attempt, S # {} PROVE Min(S) \in S
<1>1. S \subseteq Nat
  BY RolloverAssumption
<1>2. PICK x \in S : \A y \in S : ~(<<y, x>> \in OpToRel(<, Nat))
  BY <1>1, NatLessThanWellFounded, WFMin
<1>3. \A y \in S : ~(y < x)
  <2> SUFFICES ASSUME NEW y \in S PROVE ~(y < x)
    OBVIOUS
  <2>1. y \in Nat /\ x \in Nat /\ <<y, x>> \notin OpToRel(<, Nat)
    BY <1>1, <1>2
  <2> QED BY <2>1, Zenon DEF OpToRel
<1>4. \A y \in S : x <= y
  BY <1>1, <1>3
<1> QED BY <1>4 DEF Min

LEMMA Orders ==
  /\ Len(PublicationOrder) = 4 /\ Len(RemovalOrder) = 4
  /\ \A n \in 1 .. 4 : PublicationOrder[n] \in Output /\ RemovalOrder[n] \in Output
  /\ RemovalOrder[1] = "staged_trial" /\ RemovalOrder[2] = "successor_proposal"
  BY DEF PublicationOrder, RemovalOrder, Output, Archives

LEMMA InitIInv == Init => IInv
<1> SUFFICES ASSUME Init PROVE IInv
  OBVIOUS
<1>1. Idle \in ProcState
  BY DEF Idle, ProcState, Step
<1>2. TypeOK
  BY <1>1, RolloverAssumption DEF Init, TypeOK
<1>3. SuccessorBacked /\ RolledBackClean /\ OneUndecided /\ UndecidedActive /\ VerifiedActive
  BY DEF Init, SuccessorBacked, RolledBackClean, OneUndecided, UndecidedActive,
         VerifiedActive, Undecided, Directories
<1>4. \A p \in Process : Place(p) /\ Grounds(p) /\ ~Owner(p)
  BY NoProcessAssumption DEF Init, Idle, Place, Grounds, Owner, Activating, RollingBack,
         ActivationStep, RollbackStep
<1> QED BY <1>2, <1>3, <1>4 DEF IInv, RolloverInv, NoSharing

-----------------------------------------------------------------------------
(* What a step of one process leaves to the others.                        *)

LEMMA Typed ==
  ASSUME IInv, NEW p \in Process
  PROVE  /\ proc[p] \in ProcState /\ proc[p].attempt \in Attempt \cup {0}
         /\ proc[p].todo \subseteq Directories /\ Directories \subseteq Attempt
         /\ proc[p].pc \in {"finish", "remove"} => proc[p].attempt \in Attempt
  BY Orders DEF IInv, RolloverInv, TypeOK, ProcState, Place, Directories, RollingBack

LEMMA Others ==
  ASSUME IInv, NEW p \in Process, NEW q \in Process \ {p}, proc'[q] = proc[q],
         lease' = q <=> lease = q,
         active' = active \/ proc[q].pc \in {"idle", "scanned", "reconcile", "return"},
         \A a \in Attempt : journal[a] \subseteq journal'[a] /\ torn[a] \subseteq torn'[a],
         Owner(q) => LET a == proc[q].attempt IN
                     journal'[a] = journal[a] /\ torn'[a] = torn[a],
         proc[q].pc = "prepare" => journal' = journal /\ torn' = torn,
         proc[q].pc = "remove" =>
            \A o \in Output \ Archives : output'[o] \in {output[o], Absent, Torn}
  PROVE  Place(q)' /\ Grounds(q)'
<1>1. Place(q) /\ Grounds(q)
  BY DEF IInv
<1>2. Directories \subseteq Directories'
  BY DEF Directories
<1>3. (Owner(q)' <=> Owner(q)) /\ (Activating(q)' <=> Activating(q))
      /\ (RollingBack(q)' <=> RollingBack(q))
  BY DEF Owner, Activating, RollingBack
<1>4. Place(q)'
  BY <1>1, <1>2, <1>3 DEF Place
<1>5. Owner(q) => (Undecided(proc[q].attempt)' <=> Undecided(proc[q].attempt))
  BY <1>1 DEF Owner, Undecided, Directories, Terminal, Place
<1>6. proc[q].pc = "remove" => /\ output'["staged_trial"] \in {output["staged_trial"], Absent, Torn}
                               /\ output'["successor_proposal"] \in
                                     {output["successor_proposal"], Absent, Torn}
                               /\ proc[q].attempt \in Attempt
  BY Typed DEF Output, Archives
<1>7. Grounds(q)'
  BY <1>1, <1>3, <1>5, <1>6, Kinds, Typed
     DEF Grounds, Owner, Activating, RollingBack, ActivationStep, Undecided, Directories, Terminal,
         Place
<1> QED BY <1>4, <1>7

\* A process that takes up no attempt but one it had to reconcile.
LEMMA SharingKept ==
  ASSUME IInv, NEW p \in Process, NEW s \in ProcState, proc' = [proc EXCEPT ![p] = s],
         s.attempt \in {0, proc[p].attempt} \cup proc[p].todo, s.todo \subseteq proc[p].todo,
         Owner(p)' => Owner(p) /\ s.attempt = proc[p].attempt
  PROVE  NoSharing'
<1>1. /\ proc'[p] = s
      /\ \A q \in Process \ {p} : proc'[q] = proc[q] /\ (Owner(q)' <=> Owner(q))
  BY DEF Owner, Activating, RollingBack, IInv, RolloverInv, TypeOK
<1>2. \A q \in Process : Owner(q) => proc[q].attempt \in Attempt /\ proc[q].attempt # 0
  BY Kinds DEF IInv, Place, Owner
<1> QED BY <1>1, <1>2 DEF NoSharing, IInv

\* The end of a process.
LEMMA EndSharing ==
  ASSUME IInv, NEW p \in Process, End(p)
  PROVE  /\ NoSharing' /\ Place(p)' /\ Grounds(p)' /\ proc'[p] = Idle /\ Idle \in ProcState
         /\ proc' = [proc EXCEPT ![p] = Idle]
<1>1. proc' = [proc EXCEPT ![p] = Idle] /\ Idle \in ProcState
  BY DEF End, Idle, ProcState, Step
<1>2. proc'[p] = Idle
  BY <1>1 DEF IInv, RolloverInv, TypeOK
<1>3. ~Owner(p)' /\ Place(p)' /\ Grounds(p)'
  BY <1>2, NoProcessAssumption DEF Owner, Activating, RollingBack, Idle, ActivationStep,
     RollbackStep, Place, Grounds, End
<1>4. NoSharing'
  BY <1>1, <1>3, SharingKept DEF Idle
<1> QED BY <1>1, <1>2, <1>3, <1>4

\* Only these steps write phase files: each is alone on its attempt.
LEMMA Writers ==
  ASSUME IInv, NEW p \in Process, PendingPhase(p) # {}
  PROVE  /\ proc[p].pc \in {"prepare", "publish", "record_swap", "verify", "remove", "finish"}
         /\ proc[p].attempt \in Attempt
         /\ proc[p].pc # "prepare" => proc[p].attempt \in Directories
         /\ \A q \in Process \ {p} : proc[q].pc # "prepare"
<1>1. proc[p].pc \in {"prepare", "publish", "record_swap", "verify", "remove", "finish"}
  BY DEF PendingPhase
<1>2. proc[p].attempt \in Attempt /\ (proc[p].pc # "prepare" => proc[p].attempt \in Directories)
  BY <1>1, Typed DEF IInv, Place, Grounds, Activating, RollingBack, ActivationStep, Undecided
<1>3. ASSUME NEW q \in Process \ {p}, proc[q].pc = "prepare" PROVE FALSE
  BY <1>1, <1>2, <1>3 DEF IInv, Place, Grounds, Activating, RollingBack, ActivationStep
<1> QED BY <1>1, <1>2, <1>3

\* What a fault leaves partly written breaks nothing that is known.
LEMMA Disturbed ==
  ASSUME IInv, NEW p \in Process, Interrupted(p), UNCHANGED <<active, journal>>
  PROVE  /\ output' \in [Output -> Attempt \cup {Predecessor, Absent, Torn}]
         /\ torn' \in [Attempt -> SUBSET Phase]
         /\ \A a \in Attempt : torn[a] \subseteq torn'[a]
         /\ \A a \in Attempt \ {proc[p].attempt} : torn'[a] = torn[a]
         /\ \A o \in Output : output'[o] \in {output[o], Torn}
         /\ torn' # torn => \A q \in Process \ {p} : proc[q].pc # "prepare"
         /\ SuccessorBacked' /\ RolledBackClean'
         /\ OneUndecided' /\ UndecidedActive' /\ VerifiedActive'
<1> USE DEF IInv, RolloverInv
<1>0. /\ output \in [Output -> Attempt \cup {Predecessor, Absent, Torn}]
      /\ torn \in [Attempt -> SUBSET Phase] /\ journal \in [Attempt -> SUBSET Phase]
      /\ active \in Attempt \cup {Predecessor}
  BY DEF TypeOK
<1>1. CASE UNCHANGED <<output, torn>>
  BY <1>0, <1>1 DEF SuccessorBacked, RolledBackClean, OneUndecided, UndecidedActive, VerifiedActive,
     Undecided, Directories, Exact
<1>2. ASSUME NEW phase \in PendingPhase(p),
             torn' = [torn EXCEPT ![proc[p].attempt] = @ \cup {phase}], UNCHANGED output
      PROVE  /\ torn' \in [Attempt -> SUBSET Phase]
             /\ SuccessorBacked' /\ RolledBackClean'
             /\ OneUndecided' /\ UndecidedActive' /\ VerifiedActive'
  <2> DEFINE a == proc[p].attempt
  <2>1. phase \in Phase
    BY DEF PendingPhase, MissingPhase, Phase
  <2>2. a \in Attempt /\ torn' \in [Attempt -> SUBSET Phase]
    BY <1>0, <1>2, <2>1, Writers
  <2>3. SuccessorBacked' /\ RolledBackClean' /\ VerifiedActive'
    BY <1>0, <1>2 DEF SuccessorBacked, RolledBackClean, VerifiedActive, Exact
  <2>4. CASE proc[p].pc = "prepare"
    <3>1. active = Predecessor /\ \A b \in Attempt : ~Undecided(b)
      BY <2>4 DEF Grounds
    <3>2. \A b \in Attempt : Undecided(b)' => b = a
      BY <1>0, <1>2, <2>2, <3>1 DEF Undecided, Directories
    <3> QED BY <2>2, <2>3, <3>1, <3>2 DEF OneUndecided, UndecidedActive
  <2>5. CASE proc[p].pc # "prepare"
    <3>1. Directories' = Directories
      BY <1>0, <1>2, <2>2, <2>5, Writers DEF Directories
    <3> QED BY <2>2, <2>3, <3>1 DEF OneUndecided, UndecidedActive, Undecided
  <2> QED BY <2>4, <2>5
<1>3. ASSUME proc[p].pc = "publish", UNCHANGED torn, NEW o \in Output,
             output' = [output EXCEPT ![o] = Torn]
      PROVE  /\ output' \in [Output -> Attempt \cup {Predecessor, Absent, Torn}]
             /\ SuccessorBacked' /\ RolledBackClean'
             /\ OneUndecided' /\ UndecidedActive' /\ VerifiedActive'
  <2>1. active = Predecessor
    BY <1>3 DEF Grounds
  <2> QED
    BY <1>0, <1>3, <2>1, Kinds DEF SuccessorBacked, RolledBackClean, OneUndecided, UndecidedActive,
       VerifiedActive, Undecided, Directories, Output, Archives
<1>4. \/ UNCHANGED <<output, torn>>
      \/ \E phase \in PendingPhase(p) :
            torn' = [torn EXCEPT ![proc[p].attempt] = @ \cup {phase}] /\ UNCHANGED output
      \/ /\ proc[p].pc = "publish" /\ UNCHANGED torn
         /\ \E o \in Output : output' = [output EXCEPT ![o] = Torn]
  <2>1. proc[p].n \in 1 .. 5
    BY Typed DEF ProcState
  <2> QED BY <2>1, Orders DEF Interrupted
<1> QED
  <2>1. CASE UNCHANGED <<output, torn>>
    BY <1>0, <1>1, <2>1
  <2>2. CASE \E phase \in PendingPhase(p) :
            torn' = [torn EXCEPT ![proc[p].attempt] = @ \cup {phase}] /\ UNCHANGED output
    BY <1>0, <1>2, <2>2, Writers
  <2>3. CASE /\ proc[p].pc = "publish" /\ UNCHANGED torn
             /\ \E o \in Output : output' = [output EXCEPT ![o] = Torn]
    BY <1>0, <1>3, <2>3
  <2> QED BY <1>4, <2>1, <2>2, <2>3

\* A step of one process that writes at most what a fault leaves.
LEMMA ProcStep ==
  ASSUME IInv, NEW p \in Process, NEW s \in ProcState, proc' = [proc EXCEPT ![p] = s],
         Interrupted(p), UNCHANGED <<active, journal, account>>, faults' \in 0 .. MaxFaults,
         lease' \in {lease, p, NoProcess},
         lease' = p => lease \in {p, NoProcess},
         lease' = NoProcess => lease \in {p, NoProcess},
         Place(p)', Grounds(p)', NoSharing'
  PROVE  IInv'
<1> USE DEF IInv, RolloverInv
<1>1. /\ output' \in [Output -> Attempt \cup {Predecessor, Absent, Torn}]
      /\ torn' \in [Attempt -> SUBSET Phase]
      /\ \A a \in Attempt : torn[a] \subseteq torn'[a]
      /\ \A a \in Attempt \ {proc[p].attempt} : torn'[a] = torn[a]
      /\ \A o \in Output : output'[o] \in {output[o], Torn}
      /\ torn' # torn => \A q \in Process \ {p} : proc[q].pc # "prepare"
      /\ SuccessorBacked' /\ RolledBackClean'
      /\ OneUndecided' /\ UndecidedActive' /\ VerifiedActive'
  BY Disturbed
<1>2. TypeOK'
  BY <1>1 DEF TypeOK
<1>3. ASSUME NEW q \in Process \ {p} PROVE Place(q)' /\ Grounds(q)'
  <2>1. proc'[q] = proc[q] /\ (lease' = q <=> lease = q)
    BY NoProcessAssumption DEF TypeOK
  <2>2. Owner(q) => proc[q].attempt \in Attempt \ {proc[p].attempt}
    BY DEF NoSharing, Place, Owner
  <2> QED BY <1>1, <2>1, <2>2, Others
<1> QED BY <1>1, <1>2, <1>3

-----------------------------------------------------------------------------
(* Steps that write no file.                                               *)

LEMMA EndStep ==
  ASSUME IInv, NEW p \in Process, End(p), Interrupted(p),
         UNCHANGED <<active, journal, account>>, faults' \in 0 .. MaxFaults
  PROVE  IInv'
<1>1. lease' \in {lease, NoProcess} /\ (lease' = NoProcess => lease \in {p, NoProcess})
      /\ lease' # p
  BY NoProcessAssumption DEF End
<1> QED BY <1>1, EndSharing, ProcStep

LEMMA BeginStep ==
  ASSUME IInv, NEW p \in Process, NEW a \in Attempt, Begin(p, a) PROVE IInv'
<1> DEFINE s == [proc[p] EXCEPT !.pc = "prepare", !.attempt = a]
<1>1. proc[p].pc = "idle" /\ proc[p] \in ProcState /\ proc[p].todo = {} /\ proc[p].n = 1
  BY Typed DEF Begin, IInv, Place
<1>2. s \in ProcState /\ s.pc = "prepare" /\ s.attempt = a /\ s.todo = {}
  BY <1>1 DEF ProcState, Step, ActivationStep
<1>3. proc' = [proc EXCEPT ![p] = s] /\ proc'[p] = s
  BY DEF Begin, IInv, RolloverInv, TypeOK
<1>4. /\ lease = NoProcess /\ lease' = p /\ UNCHANGED <<disk, faults>>
      /\ active = Predecessor /\ NothingIncomplete /\ a \notin Directories
      /\ \A q \in Process : proc[q].attempt # a
  BY DEF Begin
<1>5. Place(p)'
  BY <1>2, <1>3, <1>4 DEF Place, Activating, RollingBack, ActivationStep, RollbackStep
<1>6. Grounds(p)'
  <2>1. \A b \in Attempt : ~Undecided(b)
    BY <1>4 DEF NothingIncomplete, Undecided
  <2> QED BY <1>2, <1>3, <1>4, <2>1
         DEF Grounds, Activating, RollingBack, ActivationStep, RollbackStep, Undecided, Directories,
             Terminal, disk
<1>7. NoSharing'
  <2>1. \A q \in Process \ {p} : proc'[q] = proc[q] /\ (Owner(q)' <=> Owner(q))
                                 /\ a \notin proc[q].todo /\ proc[q].attempt # a
    BY <1>3, <1>4, Typed DEF Owner, Activating, RollingBack, IInv, RolloverInv, TypeOK
  <2>2. proc'[p].attempt = a /\ proc'[p].todo = {}
    BY <1>2, <1>3
  <2> QED BY <2>1, <2>2 DEF NoSharing, IInv
<1> QED
  <2>1. Interrupted(p) /\ faults' \in 0 .. MaxFaults
    BY <1>4 DEF Interrupted, disk, IInv, RolloverInv, TypeOK
  <2>2. UNCHANGED <<active, journal, account>> /\ lease' \in {lease, p, NoProcess}
    BY <1>4 DEF disk
  <2>3. lease' # NoProcess
    BY <1>4, NoProcessAssumption
  <2> HIDE DEF s
  <2> QED BY <1>2, <1>3, <1>4, <1>5, <1>6, <1>7, <2>1, <2>2, <2>3, ProcStep

\* A step that leaves the disk alone and goes on with the same attempt, or with
\* one the process had to reconcile.
LEMMA GoStep ==
  ASSUME IInv, NEW p \in Process, NEW s \in ProcState, proc' = [proc EXCEPT ![p] = s],
         UNCHANGED <<disk, faults>>,
         lease' = lease \/ (lease' = p /\ lease = NoProcess),
         s.attempt \in {0, proc[p].attempt} \cup proc[p].todo, s.todo \subseteq proc[p].todo,
         Owner(p)' => Owner(p) /\ s.attempt = proc[p].attempt,
         Place(p)', Grounds(p)'
  PROVE  IInv'
<1>1. Interrupted(p) /\ faults' \in 0 .. MaxFaults
  BY DEF Interrupted, disk, IInv, RolloverInv, TypeOK
<1>2. NoSharing'
  BY SharingKept
<1> QED BY <1>1, <1>2, ProcStep DEF disk

LEMMA ReadAuthorityStep ==
  ASSUME IInv, NEW p \in Process, ReadAuthority(p) PROVE IInv'
<1>1. proc[p].pc = "rollback" /\ proc[p] \in ProcState /\ Place(p) /\ Grounds(p)
  BY Typed DEF ReadAuthority, IInv
<1>2. RollingBack(p) /\ Owner(p)
  BY <1>1 DEF RollingBack, Owner, RollbackStep
<1>3. CASE End(p)
  BY <1>3, EndStep DEF ReadAuthority, disk, Interrupted, IInv, RolloverInv, TypeOK
<1>4. ASSUME NEW next \in {"remove", "restore"}, Goto(p, next), UNCHANGED lease,
             next = "remove" => active = Predecessor, next = "restore" => active = proc[p].attempt
      PROVE  IInv'
  <2> DEFINE s == [proc[p] EXCEPT !.pc = next]
  <2>1. /\ proc' = [proc EXCEPT ![p] = s] /\ proc'[p] = s /\ s \in ProcState
        /\ s.pc = next /\ s.attempt = proc[p].attempt /\ s.todo = proc[p].todo /\ s.n = 1
    BY <1>1, <1>4 DEF Goto, ProcState, Step, RollbackStep, Place, IInv, RolloverInv, TypeOK
  <2>2. UNCHANGED <<active, output, journal, torn, account>>
    BY DEF ReadAuthority, disk
  <2>3. Owner(p)' /\ RollingBack(p)' /\ ~Activating(p)'
    BY <1>1, <1>2, <2>1 DEF Owner, RollingBack, Activating, RollbackStep, ActivationStep, Place
  <2>4. Place(p)'
    BY <1>1, <1>2, <1>4, <2>1, <2>2, <2>3 DEF Place, RollbackStep, Directories
  <2>5. Grounds(p)'
    BY <1>1, <1>2, <1>4, <2>1, <2>2, <2>3 DEF Grounds, Undecided, Directories, Terminal, ActivationStep
  <2> QED BY <1>2, <1>4, <2>1, <2>3, <2>4, <2>5, GoStep DEF ReadAuthority
<1> QED BY <1>3, <1>4 DEF ReadAuthority

LEMMA TakeLeaseStep ==
  ASSUME IInv, NEW p \in Process, TakeLease(p) PROVE IInv'
<1>1. proc[p].pc = "scanned" /\ proc[p] \in ProcState /\ Place(p) /\ Grounds(p)
  BY Typed DEF TakeLease, IInv
<1>2. CASE End(p)
  BY <1>2, EndStep DEF TakeLease, disk, Interrupted, IInv, RolloverInv, TypeOK
<1>3. CASE lease = NoProcess /\ lease' = p /\ Goto(p, "reconcile")
  <2> DEFINE s == [proc[p] EXCEPT !.pc = "reconcile"]
  <2>1. /\ proc' = [proc EXCEPT ![p] = s] /\ proc'[p] = s /\ s \in ProcState
        /\ s.pc = "reconcile" /\ s.attempt = 0 /\ s.todo = proc[p].todo /\ s.n = 1
    BY <1>1, <1>3 DEF Goto, ProcState, Step, RecoveryStep, Place, IInv, RolloverInv, TypeOK
  <2>2. UNCHANGED <<active, output, journal, torn, account>>
    BY DEF TakeLease, disk
  <2>3. ~Owner(p)' /\ ~RollingBack(p)' /\ ~Activating(p)'
    BY <2>1 DEF Owner, RollingBack, Activating, RollbackStep, ActivationStep
  <2>4. Place(p)' /\ Grounds(p)'
    BY <1>1, <1>3, <2>1, <2>2, <2>3 DEF Place, Grounds, RollbackStep, ActivationStep, Directories
  <2> QED BY <1>3, <2>1, <2>3, <2>4, GoStep DEF TakeLease
<1> QED BY <1>2, <1>3 DEF TakeLease

LEMMA ReconcileStep ==
  ASSUME IInv, NEW p \in Process, Reconcile(p) PROVE IInv'
<1>1. proc[p].pc = "reconcile" /\ proc[p] \in ProcState /\ Place(p) /\ Grounds(p)
  BY Typed DEF Reconcile, IInv
<1>2. CASE End(p)
  BY <1>2, EndStep DEF Reconcile, disk, Interrupted, IInv, RolloverInv, TypeOK
<1>3. ASSUME ~End(p) PROVE IInv'
  <2> DEFINE a == Min(proc[p].todo)
  <2>1. a \in proc[p].todo /\ a \in Attempt /\ proc[p].todo # {}
    BY <1>3, MinIn, Typed DEF Reconcile
  <2>2. /\ UNCHANGED <<active, output, journal, torn, account>>
        /\ UNCHANGED <<disk, faults>>
    BY DEF Reconcile, disk
  <2>3. CASE proc' = [proc EXCEPT ![p].todo = @ \ {a}] /\ UNCHANGED lease
    <3> DEFINE s == [proc[p] EXCEPT !.todo = @ \ {a}]
    <3>1. /\ proc' = [proc EXCEPT ![p] = s] /\ proc'[p] = s /\ s \in ProcState
          /\ s.pc = "reconcile" /\ s.attempt = 0 /\ s.todo \subseteq proc[p].todo /\ s.n = 1
      <4>1. s \in ProcState /\ s.pc = "reconcile" /\ s.attempt = 0 /\ s.n = 1
            /\ s.todo = proc[p].todo \ {a}
        BY <1>1 DEF ProcState, Place
      <4>2. proc' = [proc EXCEPT ![p] = s] /\ proc'[p] = s
        BY <2>3 DEF IInv, RolloverInv, TypeOK
      <4> QED BY <4>1, <4>2
    <3>2. ~Owner(p)' /\ ~RollingBack(p)' /\ ~Activating(p)'
      BY <3>1 DEF Owner, RollingBack, Activating, RollbackStep, ActivationStep
    <3>3. Place(p)' /\ Grounds(p)'
      BY <1>1, <2>2, <2>3, <3>1, <3>2 DEF Place, Grounds, RollbackStep, ActivationStep, Directories
    <3> QED BY <2>2, <2>3, <3>1, <3>2, <3>3, GoStep
  <2>4. ASSUME NEW next \in {"remove", "finish"},
               proc' = [proc EXCEPT ![p].pc = next, ![p].attempt = a], UNCHANGED lease,
               next = "remove" => active = Predecessor, next = "finish" => active = a
        PROVE  IInv'
    <3> DEFINE s == [proc[p] EXCEPT !.pc = next, !.attempt = a]
    <3>1. /\ proc' = [proc EXCEPT ![p] = s] /\ proc'[p] = s /\ s \in ProcState
          /\ s.pc = next /\ s.attempt = a /\ s.todo = proc[p].todo /\ s.n = 1
      <4>1. s \in ProcState /\ s.pc = next /\ s.attempt = a /\ s.todo = proc[p].todo /\ s.n = 1
        BY <1>1, <2>1 DEF ProcState, Place, Step, RecoveryStep
      <4>2. proc' = [proc EXCEPT ![p] = s] /\ proc'[p] = s
        BY <2>4 DEF IInv, RolloverInv, TypeOK
      <4> QED BY <4>1, <4>2
    <3>2. ~Owner(p)' /\ ~RollingBack(p)' /\ ~Activating(p)'
      BY <2>1, <3>1 DEF Owner, RollingBack, Activating, RollbackStep, ActivationStep
    <3> HIDE DEF s, a
    <3>3. Place(p)'
      BY <1>1, <2>1, <2>2, <2>4, <3>1, <3>2 DEF Place, RollbackStep, Directories
    <3>4. Grounds(p)'
      <4>1. proc'[p].pc = next /\ proc'[p].attempt = a /\ proc'[p].n = 1
        BY <3>1
      <4>2. CASE next = "remove"
        BY <2>2, <2>4, <3>2, <4>1, <4>2 DEF Grounds, ActivationStep
      <4>3. CASE next = "finish"
        BY <2>2, <2>4, <3>2, <4>1, <4>3 DEF Grounds, ActivationStep
      <4> QED BY <4>2, <4>3
    <3> QED BY <3>3, <3>4, <2>1, <2>2, <2>4, <3>1, <3>2, <3>3, GoStep
  <2> QED BY <1>3, <2>1, <2>3, <2>4 DEF Reconcile, PredecessorActive
<1> QED BY <1>2, <1>3

LEMMA ReturnStep ==
  ASSUME IInv, NEW p \in Process, Return(p) PROVE IInv'
  BY EndStep DEF Return, disk, Interrupted, IInv, RolloverInv, TypeOK

\* Recovery is started when no activation runs: what it will reconcile has no owner.
LEMMA ScanStep ==
  ASSUME Premises, IInv, NEW p \in Process, Scan(p) PROVE IInv'
<1> DEFINE s == [proc[p] EXCEPT !.pc = "scanned", !.seen = journal, !.todo = Directories]
<1>1. proc[p].pc = "idle" /\ proc[p] \in ProcState /\ Place(p) /\ lease' = lease /\ lease # p
  BY Typed DEF Scan, IInv, Place
<1>2. /\ s \in ProcState /\ s.pc = "scanned" /\ s.attempt = 0 /\ s.n = 1
      /\ s.todo = Directories
  <2>1. journal \in [Attempt -> SUBSET Phase] /\ Directories \subseteq Attempt
    BY Typed DEF IInv, RolloverInv, TypeOK
  <2> QED BY <1>1, <2>1 DEF ProcState, Step, RecoveryStep, Place
<1>3. proc' = [proc EXCEPT ![p] = s] /\ proc'[p] = s
  BY DEF Scan, IInv, RolloverInv, TypeOK
<1>4. \A q \in Process : ~Owner(q)
  <2>1. \A q \in Process : proc[q].attempt \notin Attempt
    BY Kinds DEF Scan, Premises
  <2> QED BY <2>1 DEF IInv, Place, Owner
<1> HIDE DEF s
<1>5. ~Owner(p)' /\ ~RollingBack(p)' /\ ~Activating(p)'
  BY <1>2, <1>3 DEF Owner, RollingBack, Activating, RollbackStep, ActivationStep
<1>6. NoSharing'
  <2>1. \A q \in Process \ {p} : ~Owner(q)'
    BY <1>3, <1>4 DEF Owner, Activating, RollingBack, IInv, RolloverInv, TypeOK
  <2> QED BY <1>5, <2>1 DEF NoSharing
<1>7. UNCHANGED <<active, output, journal, torn, account, faults>>
  BY DEF Scan, disk
<1>8. Place(p)' /\ Grounds(p)'
  BY <1>1, <1>2, <1>3, <1>5, <1>7 DEF Place, Grounds, RollbackStep, ActivationStep, Directories
<1> QED BY <1>1, <1>2, <1>3, <1>6, <1>7, <1>8, ProcStep
       DEF Interrupted, IInv, RolloverInv, TypeOK

\* A fault ends a process, or turns an activation into its rollback.
LEMMA FaultStep ==
  ASSUME Premises, IInv, NEW p \in Process, Crash(p) \/ Fail(p) PROVE IInv'
<1>1. Interrupted(p) /\ UNCHANGED <<active, journal, account>> /\ faults' \in 0 .. MaxFaults
  BY RolloverAssumption DEF Crash, Fail, IInv, RolloverInv, TypeOK
<1>2. CASE End(p)
  BY <1>1, <1>2, EndStep
<1>3. CASE /\ proc[p].pc \in ActivationStep \ {"prepare", "return"} /\ lease' = NoProcess
           /\ proc' = [proc EXCEPT ![p].pc = "rollback", ![p].n = 1]
  <2> DEFINE s == [proc[p] EXCEPT !.pc = "rollback", !.n = 1]
  <2>1. Place(p) /\ Grounds(p) /\ Activating(p) /\ lease = p /\ Undecided(proc[p].attempt)
        /\ proc[p].attempt \in Attempt /\ proc[p].todo = {}
    BY <1>3 DEF IInv, Place, Grounds, Activating
  <2>2. s \in ProcState /\ s.pc = "rollback" /\ s.attempt = proc[p].attempt /\ s.n = 1 /\ s.todo = {}
    <3>1. proc[p] \in ProcState /\ "rollback" \in Step /\ 1 \in 1 .. 5
      BY Typed DEF Step, RollbackStep
    <3> QED BY <2>1, <3>1 DEF ProcState
  <2>3. proc' = [proc EXCEPT ![p] = s] /\ proc'[p] = s
    BY <1>3 DEF IInv, RolloverInv, TypeOK
  <2> HIDE DEF s
  <2>4. RollingBack(p)' /\ Owner(p) /\ ~Activating(p)'
    BY <2>1, <2>2, <2>3 DEF RollingBack, Owner, Activating, ActivationStep, RollbackStep
  <2>5. Place(p)'
    BY <1>3, <2>1, <2>2, <2>3, <2>4, NoProcessAssumption DEF Place
  <2>6. Undecided(proc[p].attempt)' /\ active \in {Predecessor, proc[p].attempt}
    <3>1. torn[proc[p].attempt] \subseteq torn'[proc[p].attempt]
      BY <1>1, <2>1, Disturbed
    <3>2. Undecided(proc[p].attempt)'
      BY <1>1, <2>1, <2>2, <2>3, <3>1 DEF Undecided, Directories, Terminal
    <3> QED BY <2>1, <3>2 DEF IInv, UndecidedActive
  <2>7. Grounds(p)'
    BY <1>1, <2>2, <2>3, <2>6 DEF Grounds, ActivationStep
  <2>8. NoSharing'
    BY <2>2, <2>3, <2>4, SharingKept
  <2>9. lease' \in {lease, p, NoProcess} /\ lease' # p /\ lease = p
    BY <1>3, <2>1, NoProcessAssumption
  <2> QED BY <1>1, <2>2, <2>3, <2>5, <2>7, <2>8, <2>9, ProcStep
<1> QED BY <1>2, <1>3 DEF Crash, Fail, Premises

LEMMA MarkAccountStep == ASSUME IInv, MarkAccount PROVE IInv'
  BY DEF IInv, RolloverInv, TypeOK, MarkAccount, Place, Grounds, Activating, RollingBack, Undecided,
     Directories, NoSharing, Owner, OneUndecided, UndecidedActive, VerifiedActive,
     SuccessorBacked, RolledBackClean, Exact

-----------------------------------------------------------------------------
(* Steps that write a phase.                                               *)

LEMMA RecordStep ==
  ASSUME IInv, NEW p \in Process, NEW s \in ProcState, proc' = [proc EXCEPT ![p] = s],
         NEW phase \in Phase, PendingPhase(p) # {}, Record(proc[p].attempt, phase),
         UNCHANGED <<active, output, torn, account, faults>>,
         lease' = lease \/ (lease' = NoProcess /\ lease = p),
         phase = "verified" => active = proc[p].attempt,
         phase = "recovered_rolled_back" =>
            /\ active # proc[p].attempt
            /\ \A o \in Output \ Archives : output[o] # proc[p].attempt,
         Place(p)', Grounds(p)', NoSharing'
  PROVE  IInv'
<1>0. PICK a \in Attempt : a = proc[p].attempt
  BY Writers
<1> USE DEF IInv, RolloverInv
<1>1. journal' = [journal EXCEPT ![a] = @ \cup {phase}]
      /\ journal' \in [Attempt -> SUBSET Phase]
  BY <1>0 DEF Record, TypeOK
<1>2. TypeOK'
  BY <1>1, NoProcessAssumption DEF TypeOK
<1>3. SuccessorBacked' /\ RolledBackClean' /\ VerifiedActive'
  BY <1>0, <1>1 DEF SuccessorBacked, RolledBackClean, VerifiedActive, TypeOK, Exact
<1>4. OneUndecided' /\ UndecidedActive'
  <2>1. \A b \in Attempt \ {a} : Undecided(b)' <=> Undecided(b)
    <3>1. \A b \in Attempt \ {a} : journal'[b] = journal[b] /\ torn'[b] = torn[b]
      BY <1>1 DEF TypeOK
    <3> QED BY <3>1 DEF Undecided, Directories, Terminal
  <2>2. CASE a \in Directories
    <3>1. Undecided(a)' => Undecided(a)
      BY <1>1, <2>2 DEF Undecided, Directories, Terminal, TypeOK
    <3> QED BY <2>1, <3>1 DEF OneUndecided, UndecidedActive
  <2>3. CASE a \notin Directories
    <3>1. active = Predecessor /\ \A b \in Attempt : ~Undecided(b)
      BY <1>0, <2>3, Writers DEF Grounds
    <3> QED BY <2>1, <3>1 DEF OneUndecided, UndecidedActive
  <2> QED BY <2>2, <2>3
<1>5. ASSUME NEW q \in Process \ {p} PROVE Place(q)' /\ Grounds(q)'
  <2>1. proc'[q] = proc[q] /\ (lease' = q <=> lease = q)
    BY NoProcessAssumption DEF TypeOK
  <2>2. Owner(q) => proc[q].attempt \in Attempt \ {a}
    BY <1>0 DEF NoSharing, Place, Owner
  <2>3. proc[q].pc # "prepare"
    BY Writers
  <2> QED BY <1>1, <2>1, <2>2, <2>3, Others DEF TypeOK
<1> QED BY <1>2, <1>3, <1>4, <1>5

\* An activation that goes on keeps its place.
LEMMA ActivationGoes ==
  ASSUME IInv, NEW p \in Process, Activating(p), NEW next \in ActivationStep, NEW n \in 1 .. 5,
         proc' = [proc EXCEPT ![p] = [proc[p] EXCEPT !.pc = next, !.n = n]], lease' = lease
  PROVE  /\ [proc[p] EXCEPT !.pc = next, !.n = n] \in ProcState
         /\ proc'[p].pc = next /\ proc'[p].attempt = proc[p].attempt
         /\ ~RollingBack(p)' /\ Place(p)' /\ NoSharing'
<1> DEFINE s == [proc[p] EXCEPT !.pc = next, !.n = n]
<1>1. proc[p] \in ProcState /\ Place(p)
  BY Typed DEF IInv
<1>2. s \in ProcState /\ s.pc = next /\ s.attempt = proc[p].attempt /\ s.todo = proc[p].todo
  BY <1>1 DEF ProcState, Step
<1>3. proc' = [proc EXCEPT ![p] = s] /\ proc'[p] = s
  BY DEF IInv, RolloverInv, TypeOK
<1>4. /\ proc[p].todo = {} /\ lease = p /\ proc[p].attempt \in Attempt
  BY <1>1 DEF Place
<1> HIDE DEF s
<1>5. Activating(p)' /\ ~RollingBack(p)'
  BY <1>2, <1>3 DEF Activating, RollingBack, ActivationStep, RollbackStep
<1>6. Place(p)'
  BY <1>2, <1>3, <1>4, <1>5 DEF Place, ActivationStep, RollbackStep
<1>7. NoSharing'
  BY <1>2, <1>3, <1>5, SharingKept DEF Owner
<1> QED BY <1>2, <1>3, <1>5, <1>6, <1>7 DEF s

\* The phases of an activation, recorded while it holds the lease.
LEMMA RecordActivation ==
  ASSUME IInv, NEW p \in Process, NEW next \in ActivationStep, Goto(p, next),
         NEW phase \in {"prepared", "outputs_published", "active_swapped", "verified"},
         PendingPhase(p) # {}, Activating(p), Record(proc[p].attempt, phase),
         UNCHANGED <<active, output, torn, account, lease, faults>>,
         phase = "verified" => active = proc[p].attempt,
         Grounds(p)'
  PROVE  IInv'
<1>1. proc[p] \in ProcState /\ proc[p].n \in 1 .. 5
  BY Typed DEF ProcState
<1>2. proc' = [proc EXCEPT ![p] = [proc[p] EXCEPT !.pc = next, !.n = proc[p].n]]
  BY <1>1 DEF Goto, ProcState
<1>3. /\ [proc[p] EXCEPT !.pc = next, !.n = proc[p].n] \in ProcState
      /\ Place(p)' /\ NoSharing'
  BY <1>1, <1>2, ActivationGoes
<1>4. phase \in Phase
  BY DEF Phase
<1> QED BY <1>2, <1>3, <1>4, RecordStep

\* What Grounds asks of an activation at its next step.
LEMMA ActivationGrounds ==
  ASSUME IInv, NEW p \in Process, NEW next \in ActivationStep, Goto(p, next), Activating(p)
  PROVE  /\ proc'[p].pc = next /\ proc'[p].attempt = proc[p].attempt /\ ~RollingBack(p)'
<1>1. proc[p] \in ProcState /\ Place(p)
  BY Typed DEF IInv
<1>2. proc'[p] = [proc[p] EXCEPT !.pc = next]
  BY DEF Goto, IInv, RolloverInv, TypeOK
<1> QED BY <1>1, <1>2 DEF ProcState, RollingBack, ActivationStep, RollbackStep

LEMMA ActivationRecords ==
  ASSUME IInv, NEW p \in Process,
         RecordPrepared(p) \/ RecordOutputs(p) \/ RecordSwap(p) \/ RecordVerified(p)
  PROVE  IInv'
<1>1. Activating(p) /\ Place(p) /\ Grounds(p) /\ PendingPhase(p) # {}
  BY DEF RecordPrepared, RecordOutputs, RecordSwap, RecordVerified, Activating, ActivationStep,
         PendingPhase, IInv
<1>2. PICK a \in Attempt : a = proc[p].attempt
  BY <1>1 DEF Place
<1>3. journal \in [Attempt -> SUBSET Phase] /\ torn \in [Attempt -> SUBSET Phase]
  BY DEF IInv, RolloverInv, TypeOK
<1>4. CASE RecordPrepared(p)
  <2>1. Record(a, "prepared") /\ Goto(p, "publish") /\ proc[p].pc = "prepare"
        /\ UNCHANGED <<active, output, torn, account, lease, faults>>
    BY <1>2, <1>4 DEF RecordPrepared
  <2>2. active = Predecessor /\ "prepared" \in journal'[a] /\ Undecided(a)'
    BY <1>1, <1>2, <1>3, <2>1 DEF Grounds, Record, Undecided, Directories, Terminal, TerminalPhase
  <2>3. Grounds(p)'
    BY <1>1, <1>2, <2>1, <2>2, ActivationGrounds DEF Grounds, ActivationStep
  <2> QED BY <1>1, <1>2, <2>1, <2>3, RecordActivation DEF ActivationStep
<1>5. CASE RecordOutputs(p)
  <2>1. Record(a, "outputs_published") /\ Goto(p, "swap") /\ proc[p].pc = "publish"
        /\ UNCHANGED <<active, output, torn, account, lease, faults>>
    BY <1>2, <1>5 DEF RecordOutputs
  <2>2. active = Predecessor /\ {"prepared", "outputs_published"} \subseteq journal'[a]
        /\ Undecided(a)'
    BY <1>1, <1>2, <1>3, <2>1
       DEF Grounds, Record, Undecided, Directories, Terminal, TerminalPhase, ActivationStep
  <2>3. Grounds(p)'
    BY <1>1, <1>2, <2>1, <2>2, ActivationGrounds DEF Grounds, ActivationStep
  <2> QED BY <1>1, <1>2, <2>1, <2>3, RecordActivation DEF ActivationStep
<1>6. CASE RecordSwap(p)
  <2>1. Record(a, "active_swapped") /\ Goto(p, "verify") /\ proc[p].pc = "record_swap"
        /\ UNCHANGED <<active, output, torn, account, lease, faults>>
    BY <1>2, <1>6 DEF RecordSwap
  <2>2. active = a /\ Undecided(a)'
    BY <1>1, <1>2, <1>3, <2>1
       DEF Grounds, Record, Undecided, Directories, Terminal, TerminalPhase, ActivationStep
  <2>3. Grounds(p)'
    BY <1>1, <1>2, <2>1, <2>2, ActivationGrounds DEF Grounds, ActivationStep
  <2> QED BY <1>1, <1>2, <2>1, <2>3, RecordActivation DEF ActivationStep
<1>7. CASE RecordVerified(p)
  <2>1. Record(a, "verified") /\ Goto(p, "return") /\ active = a
        /\ UNCHANGED <<active, output, torn, account, lease, faults>>
    BY <1>2, <1>7 DEF RecordVerified
  <2>2. Grounds(p)'
    BY <1>1, <2>1, ActivationGrounds DEF Grounds, ActivationStep
  <2> QED BY <1>1, <1>2, <2>1, <2>2, RecordActivation DEF ActivationStep
<1> QED BY <1>4, <1>5, <1>6, <1>7

\* A recovery goes on with the next attempt it read.
LEMMA NextAttemptGoes ==
  ASSUME IInv, NEW p \in Process, proc[p].pc \in {"remove", "finish"}, proc[p].todo # {},
         NextAttempt(p), Directories \subseteq Directories'
  PROVE  \E s \in ProcState : /\ proc' = [proc EXCEPT ![p] = s] /\ lease' = lease
                              /\ Place(p)' /\ Grounds(p)' /\ NoSharing'
<1> DEFINE s == [proc[p] EXCEPT !.pc = "reconcile", !.attempt = 0, !.n = 1,
                                !.todo = @ \ {proc[p].attempt}]
<1>1. proc[p] \in ProcState /\ Place(p) /\ proc[p].todo \subseteq Directories
  BY Typed DEF IInv
<1>2. lease = p /\ lease' = lease
  BY <1>1 DEF Place, NextAttempt
<1>3. "reconcile" \in Step /\ 1 \in 1 .. 5
  BY DEF Step, RecoveryStep
<1>4. /\ s \in ProcState /\ s.pc = "reconcile" /\ s.attempt = 0 /\ s.n = 1
      /\ s.todo \subseteq proc[p].todo
  BY <1>1, <1>3 DEF ProcState
<1>5. proc' = [proc EXCEPT ![p] = s] /\ proc'[p] = s
  BY DEF NextAttempt, IInv, RolloverInv, TypeOK
<1> HIDE DEF s
<1>6. ~Owner(p)' /\ ~RollingBack(p)' /\ ~Activating(p)'
  BY <1>4, <1>5 DEF Owner, RollingBack, Activating, RollbackStep, ActivationStep
<1>7. Place(p)' /\ Grounds(p)'
  BY <1>1, <1>2, <1>4, <1>5, <1>6 DEF Place, Grounds, RollbackStep, ActivationStep
<1>8. NoSharing'
  BY <1>4, <1>5, <1>6, SharingKept
<1> QED BY <1>2, <1>4, <1>5, <1>7, <1>8

LEMMA CloseStep == ASSUME IInv, NEW p \in Process, Close(p) PROVE IInv'
<1>1. /\ proc[p].pc = "remove" /\ proc[p].n > 4 /\ Place(p) /\ Grounds(p)
      /\ proc[p].n \in 1 .. 5
  BY Orders, Typed DEF Close, IInv, ProcState
<1>2. PICK a \in Attempt : a = proc[p].attempt
  BY <1>1, Typed
<1>3. /\ UNCHANGED <<active, output, torn, account, faults>>
      /\ \/ End(p) /\ UNCHANGED journal
         \/ /\ Record(a, "recovered_rolled_back")
            /\ End(p) \/ (proc[p].todo # {} /\ NextAttempt(p))
  BY <1>2 DEF Close
<1>4. CASE End(p) /\ UNCHANGED journal
  BY <1>3, <1>4, EndStep DEF Interrupted, IInv, RolloverInv, TypeOK
<1>5. CASE Record(a, "recovered_rolled_back")
  <2>1. PendingPhase(p) # {} /\ "recovered_rolled_back" \in Phase
    BY <1>1, Orders DEF PendingPhase, Phase
  <2>2. active # a /\ \A o \in Output \ Archives : output[o] # a
    BY <1>1, <1>2, Kinds DEF Grounds, Output, Archives
  <2>3. CASE End(p)
    <3>1. lease' = lease \/ (lease' = NoProcess /\ lease = p)
      BY <2>3 DEF End
    <3> QED BY <1>2, <1>3, <1>5, <2>1, <2>2, <2>3, <3>1, EndSharing, RecordStep
  <2>4. CASE proc[p].todo # {} /\ NextAttempt(p)
    <3>1. Directories \subseteq Directories'
      BY <1>3, <1>5 DEF Record, Directories, IInv, RolloverInv, TypeOK
    <3>2. PICK s \in ProcState : /\ proc' = [proc EXCEPT ![p] = s] /\ lease' = lease
                                 /\ Place(p)' /\ Grounds(p)' /\ NoSharing'
      BY <1>1, <2>4, <3>1, NextAttemptGoes
    <3> QED BY <1>2, <1>3, <1>5, <2>1, <2>2, <3>2, RecordStep
  <2> QED BY <1>3, <1>5, <2>3, <2>4, <1>4
<1> QED BY <1>3, <1>4, <1>5

LEMMA FinishStep == ASSUME IInv, NEW p \in Process, Finish(p) PROVE IInv'
<1>1. /\ proc[p].pc = "finish" /\ Place(p) /\ Grounds(p) /\ proc[p] \in ProcState
      /\ proc[p].attempt \in proc[p].todo /\ lease = p
  BY Typed DEF Finish, IInv, Place
<1>2. PICK a \in Attempt : a = proc[p].attempt
  BY <1>1, Typed
<1>3. PICK phase : phase = MissingPhase(proc[p].seen[a])
  OBVIOUS
<1>4. /\ phase \in Phase \ {"recovered_rolled_back"} /\ active = a
      /\ UNCHANGED <<active, output, torn, account, faults>>
      /\ \/ End(p) /\ UNCHANGED journal
         \/ /\ Record(a, phase)
            /\ \/ NextAttempt(p)
               \/ proc' = [proc EXCEPT ![p].seen[a] = @ \cup {phase}] /\ UNCHANGED lease
  BY <1>1, <1>2, <1>3 DEF Finish, MissingPhase, Phase, Grounds
<1>5. CASE End(p) /\ UNCHANGED journal
  BY <1>4, <1>5, EndStep DEF Interrupted, IInv, RolloverInv, TypeOK
<1>6. CASE Record(a, phase)
  <2>1. PendingPhase(p) # {}
    BY <1>1 DEF PendingPhase
  <2>2. Directories \subseteq Directories'
    BY <1>4, <1>6 DEF Record, Directories, IInv, RolloverInv, TypeOK
  <2>3. CASE NextAttempt(p)
    <3>1. PICK s \in ProcState : /\ proc' = [proc EXCEPT ![p] = s] /\ lease' = lease
                                 /\ Place(p)' /\ Grounds(p)' /\ NoSharing'
      BY <1>1, <2>2, <2>3, NextAttemptGoes
    <3> QED BY <1>2, <1>4, <1>6, <2>1, <3>1, RecordStep
  <2>4. CASE proc' = [proc EXCEPT ![p].seen[a] = @ \cup {phase}] /\ UNCHANGED lease
    <3> DEFINE s == [proc[p] EXCEPT !.seen[a] = @ \cup {phase}]
    <3>1. /\ s \in ProcState /\ s.pc = "finish" /\ s.attempt = proc[p].attempt
          /\ s.todo = proc[p].todo
      BY <1>1, <1>4 DEF ProcState
    <3>2. proc' = [proc EXCEPT ![p] = s] /\ proc'[p] = s
      BY <2>4 DEF IInv, RolloverInv, TypeOK
    <3> HIDE DEF s
    <3>3. ~Owner(p)' /\ ~RollingBack(p)' /\ ~Activating(p)'
      BY <3>1, <3>2 DEF Owner, RollingBack, Activating, RollbackStep, ActivationStep
    <3>4. Place(p)' /\ Grounds(p)'
      BY <1>1, <1>2, <1>4, <2>2, <2>4, <3>1, <3>2, <3>3
         DEF Place, Grounds, RollbackStep, ActivationStep
    <3>5. NoSharing'
      BY <3>1, <3>2, <3>3, SharingKept
    <3> QED BY <1>2, <1>4, <1>6, <2>1, <2>4, <3>1, <3>2, <3>4, <3>5, RecordStep
  <2> QED BY <1>4, <1>6, <2>3, <2>4, <1>5
<1> QED BY <1>4, <1>5, <1>6

-----------------------------------------------------------------------------
(* Steps that write a file other than a phase.                             *)

\* While an activation publishes or swaps, no other process does anything.
LEMMA Alone ==
  ASSUME IInv, NEW p \in Process, Activating(p), Undecided(proc[p].attempt),
         NEW q \in Process \ {p}
  PROVE  proc[q].pc \in {"idle", "scanned"}
<1>1. lease = p /\ Place(q) /\ Grounds(q) /\ proc[p].attempt \in Attempt /\ proc[q].pc \in Step
  BY Typed DEF IInv, Place, ProcState
<1>2. ~Activating(q)
  BY <1>1 DEF Place
<1>3. ~RollingBack(q)
  BY <1>1 DEF IInv, NoSharing, OneUndecided, Grounds, Place, Owner
<1> QED BY <1>1, <1>2, <1>3
       DEF Place, Step, RecoveryStep, Activating, RollingBack

\* While a rollback restores, nobody else acts on the active trial.
LEMMA AloneToRestore ==
  ASSUME IInv, NEW p \in Process, proc[p].pc = "restore", NEW q \in Process \ {p}
  PROVE  proc[q].pc \in {"idle", "scanned", "reconcile", "return"}
<1>1. /\ RollingBack(p) /\ Owner(p) /\ Undecided(proc[p].attempt) /\ active = proc[p].attempt
      /\ proc[p].attempt \in Attempt /\ active # Predecessor
  BY Kinds DEF RollingBack, Owner, RollbackStep, IInv, Grounds, Place
<1>2. /\ Place(q) /\ Grounds(q) /\ proc[q].pc \in Step
      /\ proc[q].attempt # proc[p].attempt /\ proc[p].attempt \notin proc[q].todo
  BY <1>1, Typed DEF IInv, NoSharing, ProcState
<1>3. ~RollingBack(q)
  BY <1>1, <1>2 DEF IInv, OneUndecided, Grounds, Place
<1>4. Activating(q) => proc[q].pc = "return"
  BY <1>1, <1>2 DEF IInv, OneUndecided, Grounds, Place, Activating
<1> QED BY <1>1, <1>2, <1>3, <1>4
       DEF Place, Grounds, Step, RecoveryStep, Activating, RollingBack

LEMMA FileStep ==
  ASSUME IInv, NEW p \in Process, NEW s \in ProcState, proc' = [proc EXCEPT ![p] = s],
         UNCHANGED <<journal, torn, account, lease, faults>>,
         active' \in Attempt \cup {Predecessor},
         output' \in [Output -> Attempt \cup {Predecessor, Absent, Torn}],
         \A q \in Process \ {p} :
            /\ active' = active \/ proc[q].pc \in {"idle", "scanned", "reconcile", "return"}
            /\ proc[q].pc = "remove" =>
                  \A o \in Output \ Archives : output'[o] \in {output[o], Absent, Torn},
         SuccessorBacked', RolledBackClean', UndecidedActive', VerifiedActive',
         Place(p)', Grounds(p)', NoSharing'
  PROVE  IInv'
<1>1. TypeOK'
  BY DEF IInv, RolloverInv, TypeOK
<1>2. OneUndecided'
  BY DEF IInv, OneUndecided, Undecided, Directories
<1>3. ASSUME NEW q \in Process \ {p} PROVE Place(q)' /\ Grounds(q)'
  <2>1. proc'[q] = proc[q]
    BY DEF IInv, RolloverInv, TypeOK
  <2> QED BY <2>1, Others
<1> QED BY <1>1, <1>2, <1>3 DEF IInv, RolloverInv

LEMMA PublishStep == ASSUME IInv, NEW p \in Process, Publish(p) PROVE IInv'
<1>1. /\ proc[p].pc = "publish" /\ proc[p].n \in 1 .. 4 /\ Activating(p)
      /\ Place(p) /\ Grounds(p) /\ proc[p] \in ProcState
  BY Orders, Typed DEF Publish, Activating, ActivationStep, IInv, ProcState
<1>2. PICK a \in Attempt : a = proc[p].attempt
  BY <1>1 DEF Place
<1>3. PICK o \in Output : output' = [output EXCEPT ![o] = Prepared(o, a)] /\ output[o] = Absent
  BY <1>1, <1>2, Orders DEF Publish
<1>4. /\ proc' = [proc EXCEPT ![p].n = @ + 1]
      /\ UNCHANGED <<active, journal, torn, account, lease, faults>>
      /\ active = Predecessor /\ Undecided(a) /\ "prepared" \in journal[a]
      /\ \A q \in Process \ {p} : proc[q].pc \in {"idle", "scanned"}
  BY <1>1, <1>2, Alone DEF Publish, Grounds, ActivationStep
<1>5. /\ proc' = [proc EXCEPT ![p] = [proc[p] EXCEPT !.pc = "publish", !.n = proc[p].n + 1]]
      /\ proc[p].n + 1 \in 1 .. 5
  <2>1. proc' = [proc EXCEPT ![p] = [proc[p] EXCEPT !.n = proc[p].n + 1]]
    BY <1>4
  <2>2. [proc[p] EXCEPT !.n = proc[p].n + 1] = [proc[p] EXCEPT !.pc = "publish", !.n = proc[p].n + 1]
    BY <1>1 DEF ProcState
  <2>3. proc[p].n + 1 \in 1 .. 5
    BY <1>1
  <2> QED BY ONLY <2>1, <2>2, <2>3, Zenon
<1>6. /\ [proc[p] EXCEPT !.pc = "publish", !.n = proc[p].n + 1] \in ProcState
      /\ proc'[p].pc = "publish" /\ proc'[p].attempt = a
      /\ ~RollingBack(p)' /\ Place(p)' /\ NoSharing'
  BY <1>1, <1>2, <1>4, <1>5, ActivationGoes DEF ActivationStep
<1>7. output' \in [Output -> Attempt \cup {Predecessor, Absent, Torn}]
  BY <1>3 DEF IInv, RolloverInv, TypeOK, Prepared
<1>8. Grounds(p)'
  BY <1>4, <1>6 DEF Grounds, Undecided, Directories
<1>9. SuccessorBacked' /\ UndecidedActive' /\ VerifiedActive'
  BY <1>4 DEF SuccessorBacked, UndecidedActive, VerifiedActive, Undecided, Directories,
              IInv, RolloverInv
<1>10. RolledBackClean'
  <2>1. "recovered_rolled_back" \notin journal[a]
    BY <1>4 DEF Undecided, Terminal, TerminalPhase
  <2> QED BY <1>3, <1>4, <1>7, <2>1
         DEF RolledBackClean, IInv, RolloverInv, TypeOK, Prepared
<1>11. active' \in Attempt \cup {Predecessor}
  BY <1>4
<1> QED BY <1>4, <1>5, <1>6, <1>7, <1>8, <1>9, <1>10, <1>11, FileStep

LEMMA SwapStep == ASSUME IInv, NEW p \in Process, Swap(p) PROVE IInv'
<1>1. /\ proc[p].pc = "swap" /\ Activating(p)
      /\ Place(p) /\ Grounds(p) /\ proc[p] \in ProcState /\ proc[p].n \in 1 .. 5
  BY Typed DEF Swap, Activating, ActivationStep, IInv, ProcState
<1>2. PICK a \in Attempt : a = proc[p].attempt
  BY <1>1 DEF Place
<1>3. /\ Goto(p, "record_swap") /\ UNCHANGED <<journal, torn, account, lease, faults>>
      /\ active' = a /\ output' = [output EXCEPT !["staged_trial"] = Absent]
      /\ \A o \in Output : Exact(o, a)
  BY <1>2 DEF Swap
<1>4. /\ active = Predecessor /\ Undecided(a) /\ {"prepared", "outputs_published"} \subseteq journal[a]
      /\ \A q \in Process \ {p} : proc[q].pc \in {"idle", "scanned"}
  BY <1>1, <1>2, Alone DEF Grounds, ActivationStep
<1>5. proc' = [proc EXCEPT ![p] = [proc[p] EXCEPT !.pc = "record_swap", !.n = proc[p].n]]
  BY <1>1, <1>3 DEF ProcState, Goto
<1>6. /\ [proc[p] EXCEPT !.pc = "record_swap", !.n = proc[p].n] \in ProcState
      /\ proc'[p].pc = "record_swap" /\ proc'[p].attempt = a
      /\ ~RollingBack(p)' /\ Place(p)' /\ NoSharing'
  BY <1>1, <1>2, <1>3, <1>5, ActivationGoes DEF ActivationStep
<1>7. /\ output' \in [Output -> Attempt \cup {Predecessor, Absent, Torn}]
      /\ \A o \in Output \ {"staged_trial"} : output'[o] = output[o]
      /\ output'["staged_trial"] = Absent
  BY <1>3 DEF IInv, RolloverInv, TypeOK, Output
<1>8. Grounds(p)'
  BY <1>3, <1>4, <1>6 DEF Grounds, Undecided, Directories, ActivationStep
<1>9. SuccessorBacked'
  BY <1>3, <1>4, <1>7 DEF SuccessorBacked, Exact
<1>10. UndecidedActive' /\ VerifiedActive'
  BY <1>3, <1>4, Kinds DEF IInv, OneUndecided, UndecidedActive, VerifiedActive, Undecided, Directories
<1>11. RolledBackClean'
  BY <1>3, <1>4, <1>7, Kinds DEF RolledBackClean, IInv, RolloverInv, Undecided, Terminal, TerminalPhase
<1>12. active' \in Attempt \cup {Predecessor}
  BY <1>3
<1> QED BY <1>3, <1>4, <1>5, <1>6, <1>7, <1>8, <1>9, <1>10, <1>11, <1>12, FileStep

LEMMA RestoreStep == ASSUME IInv, NEW p \in Process, Restore(p) PROVE IInv'
<1>1. /\ proc[p].pc = "restore" /\ RollingBack(p) /\ Owner(p)
      /\ Place(p) /\ Grounds(p) /\ proc[p] \in ProcState
  BY Typed DEF Restore, RollingBack, Owner, RollbackStep, IInv
<1>2. PICK a \in Attempt : a = proc[p].attempt
  BY <1>1 DEF Place
<1> DEFINE s == [proc[p] EXCEPT !.pc = "remove"]
<1>3. /\ active' = Predecessor /\ UNCHANGED <<output, journal, torn, account, lease, faults>>
      /\ proc' = [proc EXCEPT ![p] = s] /\ proc'[p] = s
  BY DEF Restore, Goto, IInv, RolloverInv, TypeOK
<1>4. /\ s \in ProcState /\ s.pc = "remove" /\ s.attempt = a /\ s.n = 1 /\ s.todo = {}
  BY <1>1, <1>2 DEF ProcState, Step, Place, RollbackStep
<1> HIDE DEF s
<1>5. active = a /\ Undecided(a) /\ lease # p
  BY <1>1, <1>2 DEF Grounds, Place
<1>6. RollingBack(p)' /\ ~Activating(p)'
  BY <1>3, <1>4 DEF RollingBack, Activating, ActivationStep
<1>7. Place(p)' /\ Grounds(p)'
  BY <1>3, <1>4, <1>5, <1>6
     DEF Place, Grounds, Undecided, Directories, ActivationStep, RollbackStep
<1>8. NoSharing'
  BY <1>1, <1>2, <1>3, <1>4, SharingKept
<1>9. SuccessorBacked' /\ UndecidedActive'
  BY <1>3 DEF SuccessorBacked, UndecidedActive
<1>10. RolledBackClean'
  BY <1>3, Kinds DEF RolledBackClean, IInv, RolloverInv
<1>11. VerifiedActive'
  BY <1>3, <1>5 DEF VerifiedActive, IInv, Undecided, Terminal, TerminalPhase
<1>12. /\ active' \in Attempt \cup {Predecessor}
       /\ output' \in [Output -> Attempt \cup {Predecessor, Absent, Torn}]
  BY <1>3 DEF IInv, RolloverInv, TypeOK
<1>13. \A q \in Process \ {p} : proc[q].pc \in {"idle", "scanned", "reconcile", "return"}
  BY <1>1, AloneToRestore
<1> QED BY <1>3, <1>4, <1>7, <1>8, <1>9, <1>10, <1>11, <1>12, <1>13, FileStep

LEMMA RemoveStep == ASSUME IInv, NEW p \in Process, Remove(p) PROVE IInv'
<1>1. /\ proc[p].pc = "remove" /\ proc[p].n \in 1 .. 4
      /\ Place(p) /\ Grounds(p) /\ proc[p] \in ProcState
  BY Orders, Typed DEF Remove, IInv, ProcState
<1>2. PICK a \in Attempt : a = proc[p].attempt
  BY <1>1, Typed
<1>3. CASE End(p) /\ UNCHANGED output
  BY <1>3, EndStep DEF Remove, Interrupted, IInv, RolloverInv, TypeOK
<1>4. CASE /\ output' = [output EXCEPT ![RemovalOrder[proc[p].n]] = Absent]
           /\ proc' = [proc EXCEPT ![p].n = @ + 1] /\ UNCHANGED lease
  <2> DEFINE s == [proc[p] EXCEPT !.n = @ + 1]
  <2>1. UNCHANGED <<active, journal, torn, account, faults>>
    BY DEF Remove
  <2>2. proc' = [proc EXCEPT ![p] = s] /\ proc'[p] = s
    BY <1>4 DEF IInv, RolloverInv, TypeOK
  <2>3. /\ s \in ProcState /\ s.pc = "remove" /\ s.attempt = a /\ s.n = proc[p].n + 1
        /\ s.todo = proc[p].todo
    BY <1>1, <1>2 DEF ProcState
  <2> HIDE DEF s
  <2>4. /\ output' \in [Output -> Attempt \cup {Predecessor, Absent, Torn}]
        /\ \A o \in Output : output'[o] \in {output[o], Absent}
        /\ proc[p].n = 1 => output'["staged_trial"] = Absent
        /\ proc[p].n = 2 => output'["successor_proposal"] = Absent
        /\ {"staged_trial", "successor_proposal"} \subseteq Output
    BY <1>1, <1>4, Orders DEF IInv, RolloverInv, TypeOK, Output
  <2>5. active = Predecessor /\ (RollingBack(p) => Undecided(a))
    BY <1>1, <1>2 DEF Grounds
  <2>6. (RollingBack(p)' <=> RollingBack(p)) /\ (Owner(p)' <=> Owner(p)) /\ ~Activating(p)'
        /\ ~Activating(p)
    BY <1>1, <2>2, <2>3 DEF RollingBack, Owner, Activating, ActivationStep, RollbackStep
  <2>7. Place(p)'
    BY <1>1, <1>2, <1>4, <2>1, <2>2, <2>3, <2>6 DEF Place, Directories, RollbackStep
  <2>8. Grounds(p)'
    <3>1. RollingBack(p)' => Undecided(a)'
      BY <2>1, <2>5, <2>6 DEF Undecided, Directories
    <3>2. /\ s.n > 1 => output'["staged_trial"] # a
          /\ s.n > 2 => output'["successor_proposal"] # a
      BY <1>1, <1>2, <2>3, <2>4, Kinds DEF Grounds
    <3> QED BY <2>1, <2>2, <2>3, <2>5, <3>1, <3>2 DEF Grounds, ActivationStep
  <2>9. NoSharing'
    BY <1>2, <2>2, <2>3, <2>6, SharingKept
  <2>10. SuccessorBacked' /\ UndecidedActive' /\ VerifiedActive'
    BY <2>1, <2>5 DEF SuccessorBacked, UndecidedActive, VerifiedActive, Undecided, Directories,
                      IInv
  <2>11. RolledBackClean'
    BY <2>1, <2>4, Kinds DEF RolledBackClean, IInv, RolloverInv
  <2>12. active' \in Attempt \cup {Predecessor}
    BY <2>1, <2>5
  <2> QED BY <1>4, <2>1, <2>2, <2>3, <2>4, <2>7, <2>8, <2>9, <2>10, <2>11, <2>12, FileStep
<1> QED BY <1>3, <1>4 DEF Remove

-----------------------------------------------------------------------------
(* The theorems.                                                           *)

LEMMA NextIInv == ASSUME Premises, IInv, [Next]_vars PROVE IInv'
<1>1. CASE UNCHANGED vars
  BY <1>1 DEF vars, IInv, RolloverInv, TypeOK, Place, Grounds, Activating, RollingBack, Undecided,
     Directories, NoSharing, Owner, OneUndecided, UndecidedActive, VerifiedActive,
     SuccessorBacked, RolledBackClean, Exact
<1>2. ASSUME NEW p \in Process, NEW a \in Attempt, Begin(p, a) PROVE IInv'
  BY <1>2, BeginStep
<1>3. ASSUME NEW p \in Process, ActivationNext(p) PROVE IInv'
  BY <1>3, ActivationRecords, PublishStep, SwapStep, ReturnStep DEF ActivationNext
<1>4. ASSUME NEW p \in Process, RollbackNext(p) PROVE IInv'
  BY <1>4, ReadAuthorityStep, RestoreStep, RemoveStep, CloseStep DEF RollbackNext
<1>5. ASSUME NEW p \in Process, Scan(p) \/ RecoveryNext(p) PROVE IInv'
  BY <1>5, ScanStep, TakeLeaseStep, ReconcileStep, FinishStep DEF RecoveryNext
<1>6. ASSUME NEW p \in Process, Crash(p) \/ Fail(p) PROVE IInv'
  BY <1>6, FaultStep
<1> QED BY <1>1, <1>2, <1>3, <1>4, <1>5, <1>6, MarkAccountStep DEF Next

\* An active successor can always be explained and undone, and of a rolled back
\* attempt nothing is left, whatever fails or dies at whatever step of whichever
\* process (execute_forward_rollover_from_plan, recover_forward_rollover_from_plan).
THEOREM RolloverHolds == ASSUME Premises PROVE Spec => []RolloverInv
<1>1. Init => IInv
  BY InitIInv
<1>2. IInv /\ [Next]_vars => IInv'
  BY NextIInv
<1>3. IInv => RolloverInv
  BY DEF IInv
<1> QED BY <1>1, <1>2, <1>3, PTL DEF Spec

-----------------------------------------------------------------------------
(* The switch of authority.                                                *)

Verdicts == [a \in Attempt |-> Verdict(a)]

\* A record of attempt a moves its own verdict only.
LEMMA VerdictMoves ==
  ASSUME IInv, NEW a \in Attempt,
         \A b \in Attempt \ {a} : journal'[b] = journal[b] /\ torn'[b] = torn[b]
  PROVE  Verdicts' = [Verdicts EXCEPT ![a] = Verdict(a)']
<1>1. ASSUME NEW b \in Attempt \ {a} PROVE Verdict(b)' = Verdict(b)
  BY DEF Verdict, Directories
<1> QED BY <1>1 DEF Verdicts

\* No verdict moves when no attempt appears and none is decided.
LEMMA VerdictsStand ==
  ASSUME Directories' = Directories,
         \A a \in Attempt : journal'[a] \cap TerminalPhase = journal[a] \cap TerminalPhase
  PROVE  Verdicts' = Verdicts
<1>1. ASSUME NEW a \in Attempt PROVE Verdict(a)' = Verdict(a)
  BY DEF Verdict, TerminalPhase
<1> QED BY <1>1 DEF Verdicts

\* The first file of an attempt opens it.
LEMMA OpensSuccessor ==
  ASSUME IInv, NEW p \in Process, proc[p].pc = "prepare", NEW a \in Attempt, a = proc[p].attempt,
         UNCHANGED active, journal'[a] \subseteq {"prepared"}, a \in Directories',
         \A b \in Attempt \ {a} : journal'[b] = journal[b] /\ torn'[b] = torn[b]
  PROVE  Authority!Open(a)
<1>1. active = Predecessor /\ a \notin Directories /\ \A b \in Attempt : ~Undecided(b)
  BY DEF IInv, Grounds
<1>2. Verdicts[a] = "none" /\ \A b \in Attempt : Verdicts[b] # "open"
  BY <1>1 DEF Verdicts, Verdict, Undecided, Directories, Terminal, TerminalPhase
<1>3. Verdict(a)' = "open"
  BY DEF Verdict
<1>4. Verdicts' = [Verdicts EXCEPT ![a] = "open"]
  BY <1>3, VerdictMoves
<1> QED BY <1>1, <1>2, <1>4 DEF Authority!Open, Verdicts

\* A terminal phase decides an open attempt, and says what is active.
LEMMA Decides ==
  ASSUME IInv, NEW a \in Attempt, Undecided(a), NEW phase \in TerminalPhase, UNCHANGED <<active, torn>>,
         journal' = [journal EXCEPT ![a] = @ \cup {phase}],
         active = a <=> phase = "verified"
  PROVE  Authority!Decide(a)
<1>1. journal \in [Attempt -> SUBSET Phase]
  BY DEF IInv, RolloverInv, TypeOK
<1>2. Verdicts[a] = "open"
  BY DEF Verdicts, Verdict, Undecided, Terminal, TerminalPhase
<1>3. /\ Verdict(a)' = IF active = a THEN "switched" ELSE "kept"
      /\ \A b \in Attempt \ {a} : journal'[b] = journal[b] /\ torn'[b] = torn[b]
  BY <1>1 DEF Verdict, Undecided, Terminal, TerminalPhase
<1>4. Verdicts' = [Verdicts EXCEPT ![a] = IF active = a THEN "switched" ELSE "kept"]
  BY <1>3, VerdictMoves
<1> QED BY <1>2, <1>4 DEF Authority!Decide, Verdicts

Promised == [Authority!SwitchNext]_(Authority!switchVars)

LEMMA Stutters == ASSUME UNCHANGED active, Verdicts' = Verdicts PROVE Promised
  BY DEF Promised, Verdicts, Authority!switchVars

\* A fault opens at most the attempt that was about to begin.
LEMMA FaultRefines ==
  ASSUME IInv, NEW p \in Process, Interrupted(p), UNCHANGED <<active, journal>> PROVE Promised
<1>1. /\ torn \in [Attempt -> SUBSET Phase] /\ journal \in [Attempt -> SUBSET Phase]
  BY DEF IInv, RolloverInv, TypeOK
<1>2. CASE torn' = torn
  <2>1. Directories' = Directories
    BY <1>2 DEF Directories
  <2> QED BY <2>1, VerdictsStand, Stutters
<1>3. ASSUME NEW phase \in PendingPhase(p), torn' = [torn EXCEPT ![proc[p].attempt] = @ \cup {phase}]
      PROVE  Promised
  <2>1. PICK a \in Attempt : a = proc[p].attempt
    BY Writers
  <2>2. CASE proc[p].pc = "prepare"
    <3>1. a \notin Directories
      BY <2>1, <2>2 DEF IInv, Grounds
    <3>2. journal'[a] = {} /\ a \in Directories'
          /\ \A b \in Attempt \ {a} : journal'[b] = journal[b] /\ torn'[b] = torn[b]
      BY <1>1, <1>3, <2>1, <3>1 DEF Directories
    <3> QED BY <2>1, <2>2, <3>2, OpensSuccessor DEF Promised, Authority!SwitchNext
  <2>3. CASE proc[p].pc # "prepare"
    <3>1. Directories' = Directories
      BY <1>1, <1>3, <2>1, <2>3, Writers DEF Directories
    <3> QED BY <3>1, VerdictsStand, Stutters
  <2> QED BY <2>2, <2>3
<1> QED BY <1>2, <1>3 DEF Interrupted

\* A recorded phase opens an attempt, decides it, or changes no verdict.
LEMMA RecordRefines ==
  ASSUME IInv, NEW p \in Process, PendingPhase(p) # {}, NEW phase \in Phase,
         Record(proc[p].attempt, phase), UNCHANGED <<active, torn>>,
         proc[p].pc = "prepare" => phase = "prepared",
         phase = "verified" => active = proc[p].attempt,
         phase = "recovered_rolled_back" => active = Predecessor
  PROVE  Promised
<1>1. PICK a \in Attempt : a = proc[p].attempt
  BY Writers
<1>2. /\ journal' = [journal EXCEPT ![a] = @ \cup {phase}] /\ phase \notin journal[a]
      /\ journal \in [Attempt -> SUBSET Phase]
  BY <1>1 DEF Record, Exists, IInv, RolloverInv, TypeOK
<1>3. CASE proc[p].pc = "prepare"
  <2>1. a \notin Directories /\ phase = "prepared"
    BY <1>1, <1>3 DEF IInv, Grounds
  <2>2. journal'[a] = {"prepared"} /\ a \in Directories'
        /\ \A b \in Attempt \ {a} : journal'[b] = journal[b] /\ torn'[b] = torn[b]
    BY <1>2, <2>1 DEF Directories
  <2> QED BY <1>1, <1>3, <2>2, OpensSuccessor DEF Promised, Authority!SwitchNext
<1>4. CASE proc[p].pc # "prepare" /\ phase \notin TerminalPhase
  <2>1. Directories' = Directories
    BY <1>1, <1>2, <1>4, Writers DEF Directories
  <2>2. \A b \in Attempt : journal'[b] \cap TerminalPhase = journal[b] \cap TerminalPhase
    BY <1>2, <1>4
  <2> QED BY <2>1, <2>2, VerdictsStand, Stutters
<1>5. CASE proc[p].pc # "prepare" /\ phase \in TerminalPhase
  <2>1. a \in Directories
    BY <1>1, <1>5, Writers
  <2>2. /\ "verified" \in journal[a] => active = a
        /\ "recovered_rolled_back" \in journal[a] => active # a
        /\ active = a <=> phase = "verified"
    BY <1>1, <1>5, Kinds DEF IInv, RolloverInv, VerifiedActive, RolledBackClean, TerminalPhase
  <2>3. Undecided(a)
    BY <1>2, <1>5, <2>1, <2>2 DEF Undecided, Terminal, TerminalPhase
  <2>4. Authority!Decide(a)
    BY <1>2, <1>5, <2>2, <2>3, Decides
  <2> QED BY <2>4 DEF Promised, Authority!SwitchNext
<1> QED BY <1>3, <1>4, <1>5

LEMMA SwapRefines == ASSUME IInv, NEW p \in Process, Swap(p) \/ Restore(p) PROVE Promised
<1>1. Directories' = Directories /\ journal' = journal
  BY DEF Swap, Restore, Directories
<1>2. Verdicts' = Verdicts
  BY <1>1, VerdictsStand
<1>3. Grounds(p) /\ Undecided(proc[p].attempt) /\ proc[p].attempt \in Attempt
  BY DEF Swap, Restore, IInv, Grounds, Place, Activating, RollingBack, ActivationStep, RollbackStep
<1>4. PICK a \in Attempt : a = proc[p].attempt
  BY <1>3
<1>5. Verdicts[a] = "open"
  BY <1>3, <1>4 DEF Verdicts, Verdict, Undecided, Terminal, TerminalPhase
<1>6. CASE Swap(p)
  <2>1. active = Predecessor /\ active' = a
    BY <1>3, <1>4, <1>6 DEF Swap, Grounds
  <2>2. Authority!Switch(a)
    BY <1>2, <1>5, <2>1 DEF Authority!Switch, Verdicts
  <2> QED BY <2>2 DEF Promised, Authority!SwitchNext
<1>7. CASE Restore(p)
  <2>1. active = a /\ active' = Predecessor
    BY <1>3, <1>4, <1>7 DEF Restore, Grounds
  <2>2. Authority!SwitchBack(a)
    BY <1>2, <1>5, <2>1 DEF Authority!SwitchBack, Verdicts
  <2> QED BY <2>2 DEF Promised, Authority!SwitchNext
<1> QED BY <1>6, <1>7

\* Steps that record a phase, or end without one.
LEMMA RecordsRefine ==
  ASSUME IInv, NEW p \in Process,
         \/ RecordPrepared(p) \/ RecordOutputs(p) \/ RecordSwap(p) \/ RecordVerified(p)
         \/ Close(p) \/ Finish(p)
  PROVE  Promised
<1>1. Grounds(p) /\ Place(p)
  BY DEF IInv
<1>2. CASE RecordPrepared(p) \/ RecordOutputs(p) \/ RecordSwap(p) \/ RecordVerified(p)
  <2>1. PendingPhase(p) # {} /\ UNCHANGED <<active, torn>>
    BY <1>2 DEF RecordPrepared, RecordOutputs, RecordSwap, RecordVerified, PendingPhase
  <2>2. PICK phase \in Phase :
           /\ Record(proc[p].attempt, phase)
           /\ proc[p].pc = "prepare" => phase = "prepared"
           /\ phase = "verified" => active = proc[p].attempt
           /\ phase # "recovered_rolled_back"
    BY <1>2 DEF RecordPrepared, RecordOutputs, RecordSwap, RecordVerified, Phase
  <2> QED BY <2>1, <2>2, RecordRefines
<1>3. CASE Close(p)
  <2>1. UNCHANGED <<active, torn>> /\ proc[p].pc = "remove" /\ active = Predecessor
        /\ PendingPhase(p) # {}
    BY <1>1, <1>3 DEF Close, Grounds, PendingPhase
  <2>2. CASE UNCHANGED journal
    BY <2>1, <2>2, FaultRefines, VerdictsStand, Stutters DEF Directories
  <2>3. CASE Record(proc[p].attempt, "recovered_rolled_back")
    BY <2>1, <2>3, RecordRefines DEF Phase
  <2> QED BY <1>3, <2>2, <2>3 DEF Close
<1>4. CASE Finish(p)
  <2>1. UNCHANGED <<active, torn>> /\ proc[p].pc = "finish" /\ active = proc[p].attempt
        /\ PendingPhase(p) # {}
    BY <1>1, <1>4 DEF Finish, Grounds, PendingPhase
  <2>2. CASE UNCHANGED journal
    BY <2>1, <2>2, VerdictsStand, Stutters DEF Directories
  <2>3. ASSUME NEW phase \in Phase \ {"recovered_rolled_back"}, Record(proc[p].attempt, phase)
        PROVE  Promised
    BY <2>1, <2>3, RecordRefines
  <2> QED BY <1>4, <2>2, <2>3 DEF Finish, MissingPhase, Phase
<1> QED BY <1>2, <1>3, <1>4

LEMMA NextRefines == ASSUME Premises, IInv, [Next]_vars PROVE Promised
<1>1. ASSUME UNCHANGED <<active, journal, torn>> PROVE Promised
  BY <1>1, VerdictsStand, Stutters DEF Directories
<1>2. CASE UNCHANGED vars
  BY <1>1, <1>2 DEF vars
<1>3. ASSUME NEW p \in Process, NEW a \in Attempt, Begin(p, a) PROVE Promised
  BY <1>1, <1>3 DEF Begin, disk
<1>4. ASSUME NEW p \in Process, ActivationNext(p) PROVE Promised
  BY <1>1, <1>4, RecordsRefine, SwapRefines DEF ActivationNext, Publish, Return, disk
<1>5. ASSUME NEW p \in Process, RollbackNext(p) PROVE Promised
  BY <1>1, <1>5, RecordsRefine, SwapRefines DEF RollbackNext, ReadAuthority, Remove, disk
<1>6. ASSUME NEW p \in Process, Scan(p) \/ RecoveryNext(p) PROVE Promised
  BY <1>1, <1>6, RecordsRefine DEF RecoveryNext, Scan, TakeLease, Reconcile, disk
<1>7. ASSUME NEW p \in Process, Crash(p) \/ Fail(p) PROVE Promised
  BY <1>7, FaultRefines DEF Crash, Fail
<1>8. CASE MarkAccount
  BY <1>1, <1>8 DEF MarkAccount
<1> QED BY <1>2, <1>3, <1>4, <1>5, <1>6, <1>7, <1>8 DEF Next

\* Authority moves to a successor and at most once back, for one undecided
\* attempt at a time, and every verdict is true when it is given and final
\* (execute_forward_rollover_from_plan, _recover_incomplete).
THEOREM AuthorityKept == ASSUME Premises PROVE Spec => AuthorityPromise
<1>1. Init => IInv
  BY InitIInv
<1>2. IInv /\ [Next]_vars => IInv'
  BY NextIInv
<1>3. Init => Authority!SwitchInit
  BY DEF Init, Authority!SwitchInit, Verdict, Directories
<1>4. IInv /\ [Next]_vars => [Authority!SwitchNext]_(Authority!switchVars)
  BY NextRefines DEF Promised
<1> QED BY <1>1, <1>2, <1>3, <1>4, PTL DEF Spec, AuthorityPromise, Authority!SwitchSpec

-----------------------------------------------------------------------------
(***************************************************************************)
(* UniverseCoverage.  What a row says of its ticker is what was officially *)
(* known on some day of it (AsOf), for the rows that start by the day d of *)
(* the coverage on that day d itself (RowsKept).  So a review may extend   *)
(* the windows over days without an effective change, the ones that block  *)
(* it being the candidates it records (BlockedKept); an activation makes   *)
(* the rows true of its day; and the receipt it leaves stays borne out by  *)
(* them (ReceiptKept).                                                     *)
(***************************************************************************)

(* A row says what is known on day d of its ticker.                        *)
Entered(r) ==
    \/ r.ticker \in Baseline /\ r.start = 0 /\ r.known = 0
    \/ \E b \in schedule : r.ticker = b.in /\ r.start = b.effective /\ r.known = b.announced

Left(r, d) ==
    \/ \E c \in Exit(r.ticker, d) : r.end = c.effective /\ r.endKnown = c.announced
    \/ Exit(r.ticker, d) = {} /\ r.end = d + 1 /\ r.endKnown = d

Released(d) == {c.release : c \in {x \in schedule : x.effective <= d}}

AsOf(r, d) ==
    /\ Entered(r) /\ r.start <= d
    /\ Left(r, d)
    /\ r.releases \subseteq Released(d)

RowsKept(d) ==
    /\ d \in 0..day
    /\ \A r \in rows : \E e \in 0..day : AsOf(r, e)
    /\ \A r \in rows : r.start <= d => AsOf(r, d)
    /\ \A t \in Baseline : \E r \in rows : r.ticker = t
    /\ \A b \in schedule : b.effective <= d => \E r \in rows : r.ticker = b.in

BlockedKept ==
    blocked # None =>
        \A c \in schedule : blocked.prior < c.effective /\ c.effective <= blocked.target
                               => c.release \in blocked.candidates

ReceiptKept(d) ==
    receipt # None /\ ~ LateRebuilds =>
        /\ receipt.change \in schedule
        /\ receipt.target \in Nat /\ receipt.target <= d
        /\ receipt.change.effective <= receipt.target
        /\ Exit(receipt.change.in, d) = {}
        /\ \A r \in rows : r.ticker \in {receipt.change.in, receipt.change.out} => r.marked

(* The rows are typed, and there is one for a ticker and a start.          *)
RowsTyped ==
    /\ rows \subseteq Row
    /\ \A r \in rows : r.start < r.end /\ r.known <= r.start
    /\ \A r, s \in rows : r.ticker = s.ticker /\ r.start = s.start => r = s

CoverageIInv == CoverageTypeOK /\ BlockedKept /\ \E d \in Days : RowsKept(d) /\ ReceiptKept(d)

Course == schedule \in Schedules /\ Regular(schedule) /\ Noticed(schedule)

-----------------------------------------------------------------------------
(* Numbers and finite sets.                                                *)

LEMMA LeastOf ==
  ASSUME NEW S \in SUBSET Nat, S # {}
  PROVE  Min(S) \in S /\ \A x \in S : Min(S) <= x
<1>1. PICK t \in S : \A y \in S : ~ (<<y, t>> \in OpToRel(<, Nat))
  BY NatLessThanWellFounded, WFMin
<1>2. \A y \in S : ~ (y < t)
  <2> SUFFICES ASSUME NEW y \in S PROVE ~ (y < t)
    OBVIOUS
  <2>1. y \in Nat /\ t \in Nat /\ <<y, t>> \notin OpToRel(<, Nat)
    BY <1>1
  <2> QED BY <2>1, Zenon DEF OpToRel
<1>3. \A y \in S : t =< y
  BY <1>2
<1> QED BY <1>3, Zenon DEF Min

LEMMA GreatestOf ==
  ASSUME NEW n \in Nat, NEW S \in SUBSET (0..n), S # {}
  PROVE  Max(S) \in S /\ \A x \in S : x <= Max(S)
<1> DEFINE T == {n - x : x \in S}
<1>1. T \in SUBSET Nat /\ T # {}
  <2>1. \A x \in S : n - x \in Nat
    OBVIOUS
  <2> QED BY <2>1 DEF T
<1>2. Min(T) \in T /\ \A y \in T : Min(T) <= y
  <2> HIDE DEF T
  <2> QED BY <1>1, LeastOf
<1>3. PICK m \in S : Min(T) = n - m
  BY <1>2 DEF T
<1>4. \A x \in S : n - x \in T
  BY DEF T
<1> HIDE DEF T
<1>5. \A x \in S : m >= x
  BY <1>1, <1>2, <1>3, <1>4
<1>6. Max(S) \in S /\ \A x \in S : Max(S) >= x
  BY <1>5, Zenon DEF Max
<1> QED BY <1>6

(* The image of a set under what is one-to-one is as large as the set.     *)
LEMMA OneToOne ==
  ASSUME NEW S, IsFiniteSet(S), NEW f, f = [x \in S |-> f[x]],
         \A x, y \in S : f[x] = f[y] => x = y
  PROVE  /\ IsFiniteSet({f[x] : x \in S})
         /\ Cardinality({f[x] : x \in S}) = Cardinality(S)
<1> DEFINE T == {f[x] : x \in S}
<1>1. f \in Bijection(S, T)
  BY DEF Bijection, Injection, Surjection, IsInjective
<1>2. ExistsBijection(S, T)
  BY <1>1 DEF ExistsBijection
<1> HIDE DEF T
<1>3. IsFiniteSet(T) /\ Cardinality(T) = Cardinality(S)
  BY <1>2, FS_Bijection
<1> QED BY <1>3 DEF T

-----------------------------------------------------------------------------
(* The course of events.                                                   *)

LEMMA ChangeTyped ==
  ASSUME Course, NEW c \in schedule
  PROVE  /\ c.announced \in Days /\ c.effective \in Days /\ c.announced <= c.effective
         /\ 0 < c.effective /\ c.out \in Ticker /\ c.in \in Ticker
         /\ c.release \in {x.release : x \in UNION Schedules}
<1>1. c \in Change /\ c.announced <= c.effective /\ 0 < c.effective
  BY ScheduleAssumption DEF Course
<1> QED BY <1>1 DEF Change

LEMMA FiniteCourse ==
  ASSUME Course
  PROVE  IsFiniteSet(schedule) /\ IsFiniteSet(Baseline)
<1> DEFINE f == [c \in schedule |-> c.in]
<1>1. \A c \in schedule : c.in \in Ticker
  BY ChangeTyped
<1>2. \A b, c \in schedule : b.in = c.in => b = c
  BY DEF Course, Regular
<1>3. f \in Injection(schedule, Ticker)
  BY <1>1, <1>2 DEF Injection, IsInjective
<1> HIDE DEF f
<1>4. IsFiniteSet(schedule)
  BY <1>3, FS_Injection, ScheduleAssumption
<1>5. IsFiniteSet(Baseline)
  BY FS_Subset, ScheduleAssumption
<1> QED BY <1>4, <1>5

(* Who leaves was there: the index has as many members on every day.       *)
LEMMA OfficialCount ==
  ASSUME Course, NEW e \in Days
  PROVE  /\ IsFiniteSet(Official(e, e))
         /\ Cardinality(Official(e, e)) = Cardinality(Baseline)
<1> DEFINE F == InForce(e, e)
           f == [c \in F |-> c.in]
           g == [c \in F |-> c.out]
           In == {f[c] : c \in F}
           Out == {g[c] : c \in F}
<1>1. F \subseteq schedule /\ IsFiniteSet(F) /\ IsFiniteSet(Baseline)
  <2>1. F \subseteq schedule
    BY DEF InForce
  <2> QED BY <2>1, FiniteCourse, FS_Subset
<1>2. IsFiniteSet(In) /\ Cardinality(In) = Cardinality(F)
  <2>1. \A x, y \in F : f[x] = f[y] => x = y
    BY <1>1 DEF Course, Regular
  <2>2. f = [x \in F |-> f[x]]
    OBVIOUS
  <2> HIDE DEF f, F
  <2> QED BY <1>1, <2>1, <2>2, OneToOne
<1>3. IsFiniteSet(Out) /\ Cardinality(Out) = Cardinality(F)
  <2>1. \A x, y \in F : g[x] = g[y] => x = y
    BY <1>1 DEF Course, Regular
  <2>2. g = [x \in F |-> g[x]]
    OBVIOUS
  <2> HIDE DEF g, F
  <2> QED BY <1>1, <2>1, <2>2, OneToOne
<1>4. Baseline \cap In = {}
  BY <1>1 DEF Course, Regular
<1>5. Out \subseteq Baseline \cup In
  <2> SUFFICES ASSUME NEW c \in F, c.out \notin Baseline PROVE c.out \in In
    OBVIOUS
  <2>1. PICK b \in schedule : b.in = c.out /\ b.effective < c.effective
    BY <1>1 DEF Course, Regular
  <2>2. b \in F
    <3>1. b.announced <= b.effective /\ b.announced \in Nat /\ b.effective \in Nat /\ e \in Nat
      BY ChangeTyped, ScheduleAssumption DEF Days
    <3>2. c.effective <= e /\ c.effective \in Nat
      BY <1>1, ChangeTyped, ScheduleAssumption DEF InForce, Days
    <3> QED BY <2>1, <3>1, <3>2 DEF InForce
  <2> QED BY <2>1, <2>2
<1>6. Official(e, e) = (Baseline \cup In) \ Out
  <2>1. In = {c.in : c \in F} /\ Out = {c.out : c \in F}
    OBVIOUS
  <2> HIDE DEF In, Out
  <2> QED BY <2>1 DEF Official
<1> HIDE DEF In, Out, F
<1>7. IsFiniteSet(Baseline \cup In)
      /\ Cardinality(Baseline \cup In) = Cardinality(Baseline) + Cardinality(F)
  <2>1. /\ IsFiniteSet(Baseline \cup In)
        /\ Cardinality(Baseline \cup In)
             = Cardinality(Baseline) + Cardinality(In) - Cardinality(Baseline \cap In)
    BY <1>1, <1>2, FS_Union
  <2>2. Cardinality({}) = 0 /\ Cardinality(Baseline) \in Nat /\ Cardinality(F) \in Nat
    BY <1>1, FS_EmptySet, FS_CardinalityType
  <2>3. Cardinality(Baseline \cap In) = 0
    BY <1>4, <2>2, Zenon
  <2> QED BY <1>2, <2>1, <2>2, <2>3
<1>8. /\ IsFiniteSet((Baseline \cup In) \ Out)
      /\ Cardinality((Baseline \cup In) \ Out)
           = Cardinality(Baseline \cup In) - Cardinality((Baseline \cup In) \cap Out)
  BY <1>7, FS_Difference
<1>9. (Baseline \cup In) \cap Out = Out
  BY <1>5
<1>10. Cardinality((Baseline \cup In) \cap Out) = Cardinality(F)
  BY <1>3, <1>9, Zenon
<1>11. Cardinality(Baseline) \in Nat /\ Cardinality(F) \in Nat
  BY <1>1, FS_CardinalityType
<1>12. Cardinality((Baseline \cup In) \ Out) = Cardinality(Baseline)
  BY <1>7, <1>8, <1>10, <1>11
<1> QED BY <1>6, <1>8, <1>12, Zenon
-----------------------------------------------------------------------------
(* Reading rows that are kept.                                             *)

LEMMA PriorIs ==
  ASSUME CoverageTypeOK, rows # {}
  PROVE  /\ Prior \in 0 .. MaxDay
         /\ \A r \in rows : r.end <= Prior + 1
         /\ \E r \in rows : r.end = Prior + 1
<1> DEFINE E == {r.end : r \in rows}
<1>1. MaxDay + 1 \in Nat /\ E \in SUBSET (0 .. MaxDay + 1) /\ E # {}
      /\ \A x \in E : x \in 1 .. MaxDay + 1
  BY ScheduleAssumption DEF CoverageTypeOK, Row
<1>2. Prior = Max(E) - 1
  BY DEF Prior
<1>3. \A r \in rows : r.end \in E
  OBVIOUS
<1>4. \A x \in E : \E r \in rows : r.end = x
  OBVIOUS
<1> HIDE DEF E
<1>5. Max(E) \in E /\ \A x \in E : x <= Max(E)
  BY <1>1, GreatestOf
<1>6. PICK m \in 1 .. MaxDay + 1 : m = Max(E)
  BY <1>1, <1>5
<1>7. Prior = m - 1 /\ \A r \in rows : r.end <= m
  BY <1>2, <1>3, <1>5, <1>6
<1>8. \E r \in rows : r.end = m
  BY <1>4, <1>5, <1>6
<1> QED BY <1>7, <1>8, ScheduleAssumption

(* There is one row of a ticker.                                           *)
LEMMA OneRow ==
  ASSUME CoverageTypeOK, Course, NEW d, RowsKept(d), NEW r \in rows, NEW s \in rows, r.ticker = s.ticker
  PROVE  r = s
<1>1. Entered(r) /\ Entered(s)
  BY DEF RowsKept, AsOf
<1>2. r.start = s.start
  BY <1>1 DEF Entered, Course, Regular
<1> QED BY <1>2 DEF CoverageTypeOK

LEMMA Stays ==
  ASSUME Course
  PROVE  \E t \in Baseline : \A e : Exit(t, e) = {}
<1>1. PICK t \in Baseline : t \notin {c.out : c \in schedule}
  BY ScheduleAssumption DEF Course
<1>2. \A e : Exit(t, e) = {}
  BY <1>1 DEF Exit
<1> QED BY <1>2

(* What is kept of a row on day d is what was officially known.            *)
LEMMA StandingIsOfficial ==
  ASSUME Course, NEW d \in Days, NEW r, r.start \in Days, AsOf(r, d),
         NEW k \in 0 .. d, NEW e \in 0 .. d
  PROVE  (r \in Standing({r}, k, e)) <=> r.ticker \in Official(k, e)
<1>1. d \in Nat /\ k \in Nat /\ e \in Nat /\ k <= d /\ e <= d
  BY ScheduleAssumption DEF Days
<1>2. r.known <= k /\ r.start <= e
      <=> r.ticker \in Baseline \cup {c.in : c \in InForce(k, e)}
  <2>1. CASE r.ticker \in Baseline /\ r.start = 0 /\ r.known = 0
    BY <1>1, <2>1
  <2>2. CASE \E b \in schedule : r.ticker = b.in /\ r.start = b.effective /\ r.known = b.announced
    <3>1. PICK b \in schedule : r.ticker = b.in /\ r.start = b.effective /\ r.known = b.announced
      BY <2>2
    <3>2. r.ticker \notin Baseline /\ \A c \in schedule : c.in = r.ticker => c = b
      BY <3>1 DEF Course, Regular
    <3> QED BY <3>1, <3>2 DEF InForce
  <2> QED BY <2>1, <2>2 DEF AsOf, Entered
<1>3. r.end > e \/ r.endKnown > k <=> r.ticker \notin {c.out : c \in InForce(k, e)}
  <2>1. CASE Exit(r.ticker, d) = {}
    <3>1. r.end = d + 1
      BY <2>1 DEF AsOf, Left
    <3>2. ASSUME NEW c \in InForce(k, e), c.out = r.ticker PROVE FALSE
      <4>1. c \in schedule /\ c.effective <= e /\ c.effective \in Nat
        BY ChangeTyped, ScheduleAssumption DEF InForce, Days
      <4>2. c \in Exit(r.ticker, d)
        BY <1>1, <3>2, <4>1 DEF Exit
      <4> QED BY <2>1, <4>2
    <3> QED BY <1>1, <3>1, <3>2
  <2>2. CASE Exit(r.ticker, d) # {}
    <3>1. PICK c \in Exit(r.ticker, d) : r.end = c.effective /\ r.endKnown = c.announced
      BY <2>2 DEF AsOf, Left
    <3>2. c \in schedule /\ c.out = r.ticker /\ c.effective \in Nat /\ c.announced \in Nat
      BY <3>1, ChangeTyped, ScheduleAssumption DEF Exit, Days
    <3>3. \A x \in schedule : x.out = r.ticker => x = c
      BY <3>2 DEF Course, Regular
    <3>4. r.ticker \in {x.out : x \in InForce(k, e)} <=> c.announced <= k /\ c.effective <= e
      BY <3>2, <3>3 DEF InForce
    <3> QED BY <1>1, <3>1, <3>2, <3>4
  <2> QED BY <2>1, <2>2
<1> QED BY <1>2, <1>3 DEF Standing, Official

LEMMA EdgeIsCoverage ==
  ASSUME CoverageTypeOK, Course, NEW d \in Days, RowsKept(d), NEW p \in Days,
         Cardinality(RowsOn(p, p)) = Cardinality(Baseline),
         \A r \in RowsOn(p, p) : OnEdge(r, p)
  PROVE  p = d
<1>1. PICK t \in Baseline : \A e : Exit(t, e) = {}
  BY Stays
<1>2. PICK n \in rows : n.ticker = t
  BY DEF RowsKept
<1>3. n.start = 0 /\ n.known = 0
  BY <1>1, <1>2 DEF RowsKept, AsOf, Entered, Course, Regular
<1>4. d \in Nat /\ p \in Nat
  BY ScheduleAssumption DEF Days
<1>5. n.end = d + 1 /\ n.endKnown = d
  BY <1>1, <1>2, <1>3, <1>4 DEF RowsKept, AsOf, Left
<1>6. ASSUME d > p PROVE FALSE
  <2>1. n \in RowsOn(p, p)
    BY <1>2, <1>3, <1>4, <1>5, <1>6 DEF RowsOn, Standing
  <2> QED BY <1>4, <1>5, <1>6, <2>1 DEF OnEdge
<1>7. ASSUME d < p PROVE FALSE
  <2> DEFINE M == RowsOn(p, p)
             f == [r \in M |-> r.ticker]
             T == {f[r] : r \in M}
             Left1 == Official(p, p) \ {t}
  <2>1. M \subseteq rows
    BY DEF RowsOn, Standing
  <2>2. t \in Official(p, p)
    BY <1>1 DEF Official, InForce, Exit
  <2>3. ASSUME NEW r \in M PROVE r.ticker \in Left1
    <3>1. r.ticker # t
      <4>1. SUFFICES ASSUME r = n PROVE FALSE
        BY <1>2, <2>1, OneRow
      <4> QED BY <1>4, <1>5, <1>7, <4>1 DEF RowsOn, Standing
    <3>2. r.start <= p /\ r.known <= p /\ r.end = p + 1 /\ r \in rows
      BY <2>1 DEF RowsOn, Standing, OnEdge
    <3>3. PICK e \in 0 .. day : AsOf(r, e)
      BY <3>2 DEF RowsKept
    <3>4. e \in Nat
      BY <3>3
    <3>5. r.ticker \in Baseline \cup {c.in : c \in InForce(p, p)}
      BY <3>2, <3>3 DEF AsOf, Entered, InForce
    <3>6. ASSUME NEW c \in InForce(p, p), c.out = r.ticker PROVE FALSE
      <4>1. c \in schedule /\ c.effective <= p /\ c.effective \in Nat
        BY ChangeTyped, ScheduleAssumption DEF InForce, Days
      <4>2. CASE c.effective <= e
        <5>1. c \in Exit(r.ticker, e)
          BY <3>6, <4>1, <4>2 DEF Exit
        <5>2. PICK x \in Exit(r.ticker, e) : r.end = x.effective
          BY <3>3, <5>1 DEF AsOf, Left
        <5>3. x = c
          BY <5>1, <5>2 DEF Exit, Course, Regular
        <5> QED BY <1>4, <3>2, <4>1, <5>2, <5>3
      <4>3. CASE e < c.effective
        <5>1. Exit(r.ticker, e) = {}
          <6> SUFFICES ASSUME NEW x \in Exit(r.ticker, e) PROVE FALSE
            OBVIOUS
          <6>1. x = c
            BY <3>6, <4>1 DEF Exit, Course, Regular
          <6> QED BY <3>4, <4>1, <4>3, <6>1 DEF Exit
        <5>2. r.end = e + 1
          BY <3>3, <5>1 DEF AsOf, Left
        <5> QED BY <1>4, <3>2, <3>4, <4>1, <4>3, <5>2
      <4> QED BY <3>4, <4>1, <4>2, <4>3
    <3> QED BY <3>1, <3>5, <3>6 DEF Official
  <2>4. IsFiniteSet(Official(p, p)) /\ Cardinality(Official(p, p)) = Cardinality(Baseline)
    BY OfficialCount
  <2>5. IsFiniteSet(Left1) /\ Cardinality(Left1) = Cardinality(Baseline) - 1
    BY <2>2, <2>4, FS_RemoveElement
  <2>6. \A r, s \in M : f[r] = f[s] => r = s
    BY <2>1, OneRow
  <2>7. f \in Injection(M, Left1)
    BY <2>3, <2>6 DEF Injection, IsInjective
  <2> HIDE DEF M, f, Left1
  <2>8. Cardinality(M) <= Cardinality(Left1)
    BY <2>5, <2>7, FS_Injection
  <2>9. Cardinality(M) = Cardinality(Baseline) /\ Cardinality(Baseline) \in Nat
    BY FiniteCourse, FS_CardinalityType DEF M
  <2> QED BY <2>5, <2>8, <2>9
<1> QED BY <1>4, <1>6, <1>7

LEMMA BoundedIsCoverage ==
  ASSUME CoverageTypeOK, Course, NEW d \in Days, RowsKept(d), Bounded
  PROVE  /\ Prior = d
         /\ \A r \in rows : AsOf(r, d)
<1>1. rows # {}
  BY Stays DEF RowsKept
<1>2. Prior \in 0 .. MaxDay /\ \A r \in rows : r.end <= Prior + 1
  BY <1>1, PriorIs
<1>3. Prior = d
  <2>1. Prior \in Days
    BY <1>2 DEF Days
  <2> QED BY <2>1, EdgeIsCoverage DEF Bounded, Members
<1>4. ASSUME NEW r \in rows PROVE AsOf(r, d)
  <2>1. r.start < r.end /\ r.start \in Nat /\ r.end \in Nat
    BY ScheduleAssumption DEF CoverageTypeOK, Row, Days
  <2>2. r.start <= d
    BY <1>2, <1>3, <2>1, ScheduleAssumption DEF Days
  <2> QED BY <2>2 DEF RowsKept
<1> QED BY <1>3, <1>4

LEMMA KnownIsOfficial ==
  ASSUME CoverageTypeOK, Course, NEW d \in Days, RowsKept(d)
  PROVE  PointInTime
<1> SUFFICES ASSUME Bounded, NEW k \in 0 .. Prior, NEW e \in 0 .. Prior
             PROVE  KnownOn(k, e) = Official(k, e)
  BY DEF PointInTime
<1>1. Prior = d /\ \A r \in rows : AsOf(r, d)
  BY BoundedIsCoverage
<1>2. ASSUME NEW r \in rows PROVE r \in RowsOn(k, e) <=> r.ticker \in Official(k, e)
  <2>1. r.start \in Days
    BY DEF CoverageTypeOK, Row
  <2>2. r \in Standing({r}, k, e) <=> r.ticker \in Official(k, e)
    BY <1>1, <2>1, StandingIsOfficial
  <2> QED BY <2>2 DEF RowsOn, Standing
<1>3. ASSUME NEW t \in Official(k, e) PROVE \E r \in rows : r.ticker = t
  <2>1. CASE t \in Baseline
    BY <2>1 DEF RowsKept
  <2>2. CASE t \notin Baseline
    <3>1. PICK b \in InForce(k, e) : t = b.in
      BY <2>2 DEF Official
    <3>2. b \in schedule /\ b.effective <= d
      BY <1>1, <3>1, ChangeTyped, ScheduleAssumption DEF InForce, Days
    <3> QED BY <3>1, <3>2 DEF RowsKept
  <2> QED BY <2>1, <2>2
<1>4. RowsOn(k, e) \subseteq rows
  BY DEF RowsOn, Standing
<1> QED BY <1>2, <1>3, <1>4 DEF KnownOn
-----------------------------------------------------------------------------
(* The reviews.                                                            *)

LEMMA HorizonIs ==
  ASSUME CoverageTypeOK, Course, Prior \in Nat, NEW c \in schedule, Prior < c.effective
  PROVE  Horizon <= c.announced
<1> DEFINE S == {n \in 1 .. MaxDay + 1 : day - n * ArchiveReach <= Prior}
<1>1. day \in Nat /\ day <= MaxDay /\ MaxDay \in Nat /\ ArchiveReach \in Nat /\ ArchiveReach >= 1
  BY ScheduleAssumption DEF CoverageTypeOK, Days
<1>2. c.announced \in Nat /\ c.effective \in Nat
  BY ChangeTyped, ScheduleAssumption DEF Days
<1>3. S # {}
  <2>1. (MaxDay + 1) * ArchiveReach >= MaxDay + 1
    BY <1>1
  <2>2. MaxDay + 1 \in S
    BY <1>1, <2>1
  <2> QED BY <2>2
<1>4. S \in SUBSET Nat
  OBVIOUS
<1>5. Horizon = day - ArchiveReach * Min(S)
  BY DEF Horizon
<1>6. \A n \in S : n \in Nat /\ n >= 1 /\ day - n * ArchiveReach <= Prior
  OBVIOUS
<1> HIDE DEF S
<1>7. Min(S) \in S
  BY <1>3, <1>4, LeastOf
<1>8. PICK n \in Nat : n = Min(S) /\ n >= 1 /\ day - n * ArchiveReach <= Prior
  BY <1>6, <1>7
<1>9. Horizon = day - n * ArchiveReach
  <2>1. ArchiveReach * n = n * ArchiveReach
    BY <1>1
  <2> QED BY <1>5, <1>8, <2>1
<1>10. n * ArchiveReach \in Nat /\ n * ArchiveReach >= ArchiveReach
  BY <1>1, <1>8
<1>11. CASE ArchiveReach >= MaxDay
  BY <1>1, <1>2, <1>9, <1>10, <1>11
<1>12. CASE c.effective <= c.announced + 1
  BY <1>1, <1>2, <1>8, <1>9, <1>10, <1>12
<1> QED BY <1>11, <1>12 DEF Course, Noticed

(* A review reads every change that became effective since the coverage.   *)
LEMMA ReviewReads ==
  ASSUME CoverageTypeOK, Course, NEW d \in Days, RowsKept(d), Bounded, NEW target \in Days,
         NEW c \in schedule, d < c.effective, c.effective <= target
  PROVE  c.release \in Blocking(target)
<1>1. Prior = d /\ \A r \in rows : AsOf(r, d)
  BY BoundedIsCoverage
<1>2. d \in Nat /\ target \in Nat /\ c.announced \in Nat /\ c.effective \in Nat
      /\ c.announced <= c.effective
  BY ChangeTyped, ScheduleAssumption DEF Days
<1>3. c \in Seen(target)
  <2>1. Horizon <= c.announced
    BY <1>1, <1>2, HorizonIs
  <2> QED BY <1>2, <2>1 DEF Seen
<1>4. c.release \notin UNION {r.releases : r \in rows}
  <2> SUFFICES ASSUME NEW r \in rows, c.release \in r.releases PROVE FALSE
    OBVIOUS
  <2>1. c.release \in Released(d)
    BY <1>1 DEF AsOf
  <2>2. PICK x \in schedule : x.effective <= d /\ x.release = c.release
    BY <2>1 DEF Released
  <2>3. x.effective = c.effective
    BY <2>2 DEF Course, Regular
  <2> QED BY <1>2, <2>2, <2>3
<1> QED BY <1>3, <1>4 DEF Blocking, Candidates

(* A row that stands on the last covered day is open, and another one has  *)
(* ended.                                                                  *)
LEMMA OpenRows ==
  ASSUME CoverageTypeOK, Course, NEW d \in Days, NEW r \in rows, AsOf(r, d)
  PROVE  r \in RowsOn(d, d) <=> Exit(r.ticker, d) = {}
<1>1. d \in Nat /\ r.known <= r.start /\ r.start <= d /\ r.known \in Nat /\ r.start \in Nat
  BY ScheduleAssumption DEF CoverageTypeOK, Row, AsOf, Days
<1>2. CASE Exit(r.ticker, d) = {}
  <2>1. r.end = d + 1
    BY <1>2 DEF AsOf, Left
  <2> QED BY <1>1, <1>2, <2>1 DEF RowsOn, Standing
<1>3. CASE Exit(r.ticker, d) # {}
  <2>1. PICK c \in Exit(r.ticker, d) : r.end = c.effective /\ r.endKnown = c.announced
    BY <1>3 DEF AsOf, Left
  <2>2. c.effective <= d /\ c.announced <= d /\ c.effective \in Nat /\ c.announced \in Nat
    BY <1>1, <2>1, ChangeTyped, ScheduleAssumption DEF Exit, Days
  <2> QED BY <1>1, <1>3, <2>1, <2>2 DEF RowsOn, Standing
<1> QED BY <1>2, <1>3

(* What has ended stays as it is when the coverage grows.                  *)
LEMMA EndedStays ==
  ASSUME Course, NEW d \in Days, NEW e \in Days, d <= e, NEW r, r.start \in Nat, AsOf(r, d),
         Exit(r.ticker, d) # {}
  PROVE  AsOf(r, e)
<1>1. d \in Nat /\ e \in Nat /\ \A c \in schedule : c.effective \in Nat
  BY ChangeTyped, ScheduleAssumption DEF Days
<1>2. r.start <= e
  BY <1>1 DEF AsOf
<1>3. Exit(r.ticker, d) \subseteq Exit(r.ticker, e)
  BY <1>1 DEF Exit
<1>4. Released(d) \subseteq Released(e)
  BY <1>1 DEF Released
<1> QED BY <1>2, <1>3, <1>4 DEF AsOf, Left

LEMMA ExtendedIs ==
  ASSUME NEW r \in Row, NEW t \in Days
  PROVE  /\ Extended(r, t) \in Row
         /\ Extended(r, t).ticker = r.ticker /\ Extended(r, t).start = r.start
         /\ Extended(r, t).known = r.known /\ Extended(r, t).releases = r.releases
         /\ Extended(r, t).marked = r.marked
         /\ Extended(r, t).end = t + 1 /\ Extended(r, t).endKnown = t
<1>1. PICK u : u = t + 1 /\ u \in 1 .. MaxDay + 1 /\ u \in 0 .. MaxDay + 1
  BY ScheduleAssumption DEF Days
<1> DEFINE q == [r EXCEPT !.end = u, !.endKnown = t, !.ref = u]
<1>2. Extended(r, t) = q
  BY <1>1 DEF Extended
<1>3. q \in Row
  BY <1>1 DEF Row
<1>4. q.ticker = r.ticker /\ q.start = r.start /\ q.known = r.known
  BY DEF Row
<1>5. q.releases = r.releases /\ q.marked = r.marked /\ q.end = u /\ q.endKnown = t
  BY DEF Row
<1> HIDE DEF q
<1> QED BY <1>1, <1>2, <1>3, <1>4, <1>5

LEMMA ExtendedAsOf ==
  ASSUME Course, NEW d \in Days, NEW t \in Days, d <= t, NEW r \in Row, AsOf(r, d),
         Exit(r.ticker, t) = {}
  PROVE  AsOf(Extended(r, t), t)
<1>1. d \in Nat /\ t \in Nat /\ r.start \in Nat /\ \A c \in schedule : c.effective \in Nat
  BY ChangeTyped, ScheduleAssumption DEF Days, Row
<1>2. r.start <= t
  BY <1>1 DEF AsOf
<1>3. Released(d) \subseteq Released(t)
  BY <1>1 DEF Released
<1> QED BY <1>2, <1>3, ExtendedIs DEF AsOf, Left, Entered

LEMMA SameCourse ==
  ASSUME schedule' = schedule
  PROVE  /\ Course' <=> Course
         /\ \A r, d : AsOf(r, d)' <=> AsOf(r, d)
         /\ \A t, d : Exit(t, d)' = Exit(t, d)
<1>1. Course' <=> Course
  BY DEF Course
<1>2. \A t, d : Exit(t, d)' = Exit(t, d)
  BY DEF Exit
<1>3. \A d : Released(d)' = Released(d)
  BY DEF Released
<1>4. ASSUME NEW r, NEW d PROVE AsOf(r, d)' <=> AsOf(r, d)
  <2>1. Entered(r)' <=> Entered(r)
    BY DEF Entered
  <2>2. Left(r, d)' <=> Left(r, d)
    BY <1>2 DEF Left
  <2> QED BY <1>3, <2>1, <2>2 DEF AsOf
<1> QED BY <1>1, <1>2, <1>4
-----------------------------------------------------------------------------
(* What each action keeps.                                                 *)

LEMMA ExtendTyped ==
  ASSUME CoverageTypeOK, NEW target \in Days, Extend(target)
  PROVE  RowsTyped'
<1>1. Prior < target /\ target \in Nat /\ rows' = (rows \ Members) \cup {Extended(r, target) : r \in Members}
  BY ScheduleAssumption DEF Extend, Reviewing, Days
<1>2. Members \subseteq rows
  BY DEF Members, RowsOn, Standing
<1>3. ASSUME NEW x \in rows' PROVE x \in rows \ Members \/ \E r \in Members : x = Extended(r, target)
  BY <1>1
<1>4. ASSUME NEW r \in Members
      PROVE  /\ Extended(r, target) \in Row
             /\ Extended(r, target).ticker = r.ticker /\ Extended(r, target).start = r.start
             /\ r.start < target + 1 /\ Extended(r, target).end = target + 1
             /\ Extended(r, target).known <= r.start
  <2>1. r \in Row /\ r.known <= r.start /\ r.start \in Nat /\ r.start < r.end /\ r.end \in Nat
    BY <1>2, ScheduleAssumption DEF CoverageTypeOK, Row, Days
  <2>2. r.end = Prior + 1
    BY DEF Extend, Reviewing, Bounded, OnEdge
  <2>3. r.start < target + 1
    <3>1. rows # {}
      BY <1>2
    <3>2. Prior \in Nat
      BY <3>1, PriorIs, ScheduleAssumption
    <3> QED BY <1>1, <2>1, <2>2, <3>2
  <2> QED BY <2>1, <2>3, ExtendedIs
<1>5. rows' \subseteq Row
  BY <1>3, <1>4 DEF CoverageTypeOK
<1>6. \A x \in rows' : x.start < x.end /\ x.known <= x.start
  BY <1>3, <1>4 DEF CoverageTypeOK
<1>7. ASSUME NEW x \in rows' PROVE \E r \in rows : /\ x.ticker = r.ticker /\ x.start = r.start
                                                   /\ r \in Members => x = Extended(r, target)
                                                   /\ r \notin Members => x = r
  BY <1>2, <1>3, <1>4
<1>8. ASSUME NEW x \in rows', NEW y \in rows', x.ticker = y.ticker, x.start = y.start PROVE x = y
  BY <1>7, <1>8 DEF CoverageTypeOK
<1> QED BY <1>5, <1>6, <1>8 DEF RowsTyped, Row

LEMMA ExtendKeeps ==
  ASSUME CoverageTypeOK, Course, BlockedKept, NEW d \in Days, RowsKept(d), ReceiptKept(d),
         NEW target \in Days, Extend(target)
  PROVE  RowsKept(target)' /\ ReceiptKept(target)'
<1>1. Bounded /\ Prior < target /\ target <= day /\ Blocking(target) = {}
      /\ rows' = (rows \ Members) \cup {Extended(r, target) : r \in Members}
      /\ UNCHANGED <<schedule, day, receipt>>
  BY DEF Extend, Reviewing
<1>2. Prior = d /\ \A r \in rows : AsOf(r, d)
  BY <1>1, BoundedIsCoverage
<1>3. d \in Nat /\ target \in Nat /\ day \in Nat /\ d < target /\ \A c \in schedule : c.effective \in Nat
  BY <1>1, <1>2, ChangeTyped, ScheduleAssumption DEF Days, CoverageTypeOK
<1>4. ASSUME NEW c \in schedule, c.effective <= target PROVE c.effective <= d
  <2>1. CASE d < c.effective
    BY <1>1, <1>4, <2>1, ReviewReads
  <2> QED BY <1>3, <2>1
<1>5. \A t : Exit(t, target) = Exit(t, d)
  BY <1>3, <1>4 DEF Exit
<1>6. Members = RowsOn(d, d)
  BY <1>2 DEF Members
<1>7. ASSUME NEW r \in rows PROVE r \in Members <=> Exit(r.ticker, d) = {}
  BY <1>2, <1>6, OpenRows
<1>8. Members \subseteq rows /\ rows \subseteq Row
  BY DEF Members, RowsOn, Standing, CoverageTypeOK
<1>9. ASSUME NEW x \in rows' PROVE AsOf(x, target)
  <2>1. CASE x \in rows \ Members
    <3>1. x.start \in Nat
      BY <1>8, <2>1, ScheduleAssumption DEF Row, Days
    <3> QED BY <1>2, <1>3, <1>7, <2>1, <3>1, EndedStays
  <2>2. CASE \E r \in Members : x = Extended(r, target)
    <3>1. PICK r \in Members : x = Extended(r, target)
      BY <2>2
    <3> QED BY <1>2, <1>3, <1>5, <1>7, <1>8, <3>1, ExtendedAsOf
  <2> QED BY <1>1, <2>1, <2>2
<1>10. ASSUME NEW r \in rows PROVE \E x \in rows' : x.ticker = r.ticker /\ x.marked = r.marked
  <2>1. CASE r \in Members
    BY <1>1, <1>8, <2>1, ExtendedIs
  <2>2. CASE r \notin Members
    BY <1>1, <2>2
  <2> QED BY <2>1, <2>2
<1>11. ASSUME NEW x \in rows' PROVE \E r \in rows : x.ticker = r.ticker /\ x.marked = r.marked
  BY <1>1, <1>8, ExtendedIs
<1>12. RowsKept(target)'
  <2>1. \A r \in rows' : AsOf(r, target)'
    BY <1>1, <1>9, SameCourse
  <2>2. \A t \in Baseline : \E r \in rows' : r.ticker = t
    BY <1>10 DEF RowsKept
  <2>3. \A b \in schedule : b.effective <= target => \E r \in rows' : r.ticker = b.in
    BY <1>4, <1>10 DEF RowsKept
  <2>4. target \in 0 .. day
    BY <1>1, <1>3
  <2> QED BY <1>1, <2>1, <2>2, <2>3, <2>4 DEF RowsKept
<1>13. ReceiptKept(target)'
  <2> SUFFICES ASSUME receipt # None, ~ LateRebuilds PROVE ReceiptKept(target)'
    BY <1>1 DEF ReceiptKept
  <2>1. /\ receipt.change \in schedule /\ receipt.target \in Nat /\ receipt.target <= d
        /\ receipt.change.effective <= receipt.target
        /\ Exit(receipt.change.in, d) = {}
        /\ \A r \in rows : r.ticker \in {receipt.change.in, receipt.change.out} => r.marked
    BY DEF ReceiptKept
  <2>2. receipt.target <= target
    BY <1>3, <2>1
  <2>3. \A r \in rows' : r.ticker \in {receipt.change.in, receipt.change.out} => r.marked
    BY <1>11, <2>1
  <2>4. Exit(receipt.change.in, target)' = {}
    BY <1>1, <1>5, <2>1, SameCourse
  <2> QED BY <1>1, <2>1, <2>2, <2>3, <2>4 DEF ReceiptKept
<1> QED BY <1>12, <1>13
-----------------------------------------------------------------------------
(* The frame of the steps that leave the rows alone.                       *)

LEMMA FrameKeeps ==
  ASSUME Course, NEW d \in Days, RowsKept(d), ReceiptKept(d), day \in Nat, day' \in Nat, day <= day',
         UNCHANGED <<schedule, rows, receipt>>
  PROVE  RowsKept(d)' /\ ReceiptKept(d)'
<1>1. d \in 0 .. day' /\ 0 .. day \subseteq 0 .. day'
  BY ScheduleAssumption DEF RowsKept, Days
<1>2. \A r \in rows : \E e \in 0 .. day : AsOf(r, e)
  BY DEF RowsKept
<1>3. \A r \in rows : \E e \in 0 .. day' : AsOf(r, e)
  BY <1>1, <1>2
<1>4. /\ \A r \in rows : \E e \in 0 .. day' : AsOf(r, e)'
      /\ \A r \in rows : r.start <= d => AsOf(r, d)'
  BY <1>3, SameCourse DEF RowsKept
<1>5. RowsKept(d)'
  BY <1>1, <1>4 DEF RowsKept
<1>6. Exit(receipt.change.in, d)' = Exit(receipt.change.in, d)
  BY SameCourse
<1> QED BY <1>5, <1>6 DEF ReceiptKept

LEMMA BlockedStays ==
  ASSUME BlockedKept, UNCHANGED <<schedule, blocked>>
  PROVE  BlockedKept'
BY DEF BlockedKept

(* What of the types does not speak of rows.                               *)
LEMMA TypesStay ==
  ASSUME CoverageTypeOK, RowsTyped', schedule' = schedule, blocked' = blocked, plan' = plan,
         receipt' = receipt, rebuilds' \in 0 .. MaxRebuilds,
         day' \in Days, published' \in 0 .. day', day <= day'
  PROVE  CoverageTypeOK'
<1>1. day \in Nat /\ day' \in Nat /\ \A x \in 0 .. day : x \in 0 .. day'
  BY ScheduleAssumption DEF CoverageTypeOK, Days
<1> QED BY <1>1 DEF CoverageTypeOK, RowsTyped

LEMMA BlockKeeps ==
  ASSUME CoverageTypeOK, Course, NEW d \in Days, RowsKept(d), ReceiptKept(d), NEW target \in Days, Block(target)
  PROVE  CoverageTypeOK' /\ BlockedKept' /\ RowsKept(d)' /\ ReceiptKept(d)'
<1>1. Bounded /\ Prior < target /\ target <= day
      /\ UNCHANGED <<schedule, day, published, rows, plan, receipt, rebuilds>>
  BY DEF Block, Reviewing
<1>2. Prior = d
  BY <1>1, BoundedIsCoverage
<1>3. blocked'.prior = d /\ blocked'.target = target /\ blocked'.candidates = Blocking(target)
  BY <1>2 DEF Block
<1>4. \A c \in schedule : d < c.effective /\ c.effective <= target => c.release \in Blocking(target)
  BY <1>1, ReviewReads
<1>5. BlockedKept'
  BY <1>1, <1>2, <1>3, <1>4 DEF BlockedKept
<1>6. CoverageTypeOK'
  <2>1. blocked'.target \in 0 .. day' /\ blocked'.prior \in 0 .. blocked'.target - 1
    BY <1>1, <1>2, <1>3, ScheduleAssumption DEF CoverageTypeOK, Days
  <2> QED BY <1>1, <2>1 DEF CoverageTypeOK
<1>7. day \in Nat
  BY ScheduleAssumption DEF CoverageTypeOK, Days
<1> QED BY <1>1, <1>5, <1>6, <1>7, FrameKeeps

LEMMA TheGoverned ==
  ASSUME Course, Cardinality({x \in schedule : x.release = Governed}) = 1
  PROVE  /\ GovernedChange \in schedule
         /\ \A x \in schedule : x.release = Governed <=> x = GovernedChange
<1> DEFINE G == {x \in schedule : x.release = Governed}
<1>1. IsFiniteSet(G)
  BY FiniteCourse, FS_Subset
<1>2. PICK c : G = {c}
  BY <1>1, FS_Singleton
<1>3. c \in schedule /\ \A x \in schedule : x.release = Governed <=> x = c
  BY <1>2
<1>4. GovernedChange = c
  BY <1>3 DEF GovernedChange
<1> QED BY <1>3, <1>4

(* The rows that a change makes.                                           *)
Closing(r, c) ==
  [r EXCEPT !.end = c.effective, !.endKnown = c.announced, !.marked = TRUE, !.ref = c.effective]
Staying(r, target) == [Extended(r, target) EXCEPT !.marked = TRUE]
Entering(c, target) ==
  [ticker |-> c.in, start |-> c.effective, end |-> target + 1, known |-> c.announced,
   endKnown |-> target, releases |-> {c.release}, marked |-> TRUE, ref |-> target + 1]

LEMMA ActivatedRows ==
  ASSUME NEW c, NEW before \in SUBSET rows, NEW target
  PROVE  /\ \A x \in Activated(c, before, target) :
              \/ x \in rows \ before
              \/ \E r \in before : r.ticker # c.out /\ x = Staying(r, target)
              \/ \E r \in before : r.ticker = c.out /\ x = Closing(r, c)
              \/ x = Entering(c, target)
         /\ rows \ before \subseteq Activated(c, before, target)
         /\ \A r \in before : r.ticker # c.out => Staying(r, target) \in Activated(c, before, target)
         /\ \A r \in before : r.ticker = c.out => Closing(r, c) \in Activated(c, before, target)
         /\ Entering(c, target) \in Activated(c, before, target)
BY DEF Activated, Staying, Closing, Entering

LEMMA StayingIs ==
  ASSUME NEW r \in Row, NEW t \in Days
  PROVE  /\ Staying(r, t) \in Row
         /\ Staying(r, t).ticker = r.ticker /\ Staying(r, t).start = r.start
         /\ Staying(r, t).known = r.known /\ Staying(r, t).releases = r.releases
         /\ Staying(r, t).end = t + 1 /\ Staying(r, t).endKnown = t
         /\ Staying(r, t).marked
<1>1. PICK x \in Row : x = Extended(r, t)
  BY ExtendedIs
<1> DEFINE q == [x EXCEPT !.marked = TRUE]
<1>2. Staying(r, t) = q
  BY <1>1 DEF Staying
<1>3. /\ q \in Row
      /\ q.ticker = x.ticker /\ q.start = x.start /\ q.known = x.known
      /\ q.releases = x.releases /\ q.end = x.end /\ q.endKnown = x.endKnown
  BY DEF Row
<1>4. q.marked
  BY DEF Row
<1> HIDE DEF q
<1>5. /\ x.ticker = r.ticker /\ x.start = r.start /\ x.known = r.known
      /\ x.releases = r.releases /\ x.end = t + 1 /\ x.endKnown = t
  BY <1>1, ExtendedIs
<1>6. Staying(r, t).marked
  BY <1>2, <1>4, Zenon
<1> QED BY <1>2, <1>3, <1>5, <1>6

LEMMA ClosingIs ==
  ASSUME Course, NEW r \in Row, NEW c \in schedule
  PROVE  /\ Closing(r, c) \in Row
         /\ Closing(r, c).ticker = r.ticker /\ Closing(r, c).start = r.start
         /\ Closing(r, c).known = r.known /\ Closing(r, c).releases = r.releases
         /\ Closing(r, c).end = c.effective /\ Closing(r, c).endKnown = c.announced
         /\ Closing(r, c).marked
<1>1. PICK e : e = c.effective /\ e \in 1 .. MaxDay + 1 /\ e \in 0 .. MaxDay + 1
  BY ChangeTyped, ScheduleAssumption DEF Days
<1>2. PICK a \in Days : a = c.announced
  BY ChangeTyped
<1> DEFINE q == [r EXCEPT !.end = e, !.endKnown = a, !.marked = TRUE, !.ref = e]
<1>3. Closing(r, c) = q
  BY <1>1, <1>2 DEF Closing
<1>4. /\ q \in Row /\ q.ticker = r.ticker /\ q.start = r.start /\ q.known = r.known
      /\ q.releases = r.releases
  BY <1>1 DEF Row
<1>5. q.end = e /\ q.endKnown = a /\ q.marked
  BY <1>1 DEF Row
<1> HIDE DEF q
<1> QED BY <1>1, <1>2, <1>3, <1>4, <1>5

LEMMA EnteringIs ==
  ASSUME Course, NEW c \in schedule, NEW t \in Days
  PROVE  /\ Entering(c, t) \in Row
         /\ Entering(c, t).ticker = c.in /\ Entering(c, t).start = c.effective
         /\ Entering(c, t).known = c.announced /\ Entering(c, t).releases = {c.release}
         /\ Entering(c, t).end = t + 1 /\ Entering(c, t).endKnown = t
         /\ Entering(c, t).marked
<1>1. /\ c.in \in Ticker /\ c.effective \in Days /\ c.announced \in Days
      /\ {c.release} \in SUBSET {x.release : x \in UNION Schedules}
      /\ t + 1 \in 1 .. MaxDay + 1 /\ t + 1 \in 0 .. MaxDay + 1
  BY ChangeTyped, ScheduleAssumption DEF Days
<1> QED BY <1>1, Zenon DEF Entering, Row

LEMMA ActivatedTyped ==
  ASSUME CoverageTypeOK, Course, NEW c \in schedule, NEW before \in SUBSET rows, NEW target \in Days
  PROVE  Activated(c, before, target) \subseteq Row
<1> SUFFICES ASSUME NEW x \in Activated(c, before, target) PROVE x \in Row
  OBVIOUS
<1>1. rows \subseteq Row
  BY DEF CoverageTypeOK
<1>2. CASE x \in rows \ before
  BY <1>1, <1>2
<1>3. CASE \E r \in before : x = Staying(r, target)
  BY <1>1, <1>3, StayingIs
<1>4. CASE \E r \in before : x = Closing(r, c)
  BY <1>1, <1>4, ClosingIs
<1>5. CASE x = Entering(c, target)
  BY <1>5, EnteringIs
<1> QED BY <1>2, <1>3, <1>4, <1>5, ActivatedRows

LEMMA PrepareKeeps ==
  ASSUME CoverageTypeOK, Course, BlockedKept, NEW d \in Days, RowsKept(d), ReceiptKept(d),
         NEW holdings \in Days, Prepare(holdings)
  PROVE  CoverageTypeOK' /\ BlockedKept' /\ RowsKept(d)' /\ ReceiptKept(d)'
<1> DEFINE before == RowsOn(blocked.prior, blocked.prior)
<1>1. /\ blocked # None /\ Cardinality({x \in schedule : x.release = Governed}) = 1
      /\ HoldingsConfirm(holdings, GovernedChange)
      /\ plan' = [kind |-> "plan", basis |-> blocked, holdings |-> holdings, before |-> before,
                  after |-> Predicted(GovernedChange, before, blocked.target)]
      /\ UNCHANGED <<schedule, day, published, rows, blocked, receipt, rebuilds>>
  BY DEF Prepare, PrepareOn, Plannable, OneBlocked
<1>2. before \subseteq rows /\ rows \subseteq Row
  BY DEF RowsOn, Standing, CoverageTypeOK
<1>3. GovernedChange \in schedule /\ blocked.target \in Days
  BY <1>1, TheGoverned, ScheduleAssumption DEF CoverageTypeOK, Days
<1>4. Predicted(GovernedChange, before, blocked.target) \subseteq Row
  <2> HIDE DEF before
  <2>1. Activated(GovernedChange, before, blocked.target) \subseteq Row
    BY <1>2, <1>3, ActivatedTyped
  <2> QED BY <2>1 DEF Predicted, Standing
<1>5. plan'.before \cup plan'.after \subseteq Row /\ plan'.holdings \in 0 .. day
  BY <1>1, <1>2, <1>4, ScheduleAssumption DEF HoldingsConfirm, Days
<1>6. CoverageTypeOK'
  BY <1>1, <1>5 DEF CoverageTypeOK
<1>7. day \in Nat
  BY ScheduleAssumption DEF CoverageTypeOK, Days
<1> QED BY <1>1, <1>6, <1>7, FrameKeeps, BlockedStays

LEMMA WorldKeeps ==
  ASSUME CoverageTypeOK, Course, BlockedKept, NEW d \in Days, RowsKept(d), ReceiptKept(d),
         PublishComponent \/ Tick \/ UNCHANGED coverageVars
  PROVE  CoverageTypeOK' /\ BlockedKept' /\ RowsKept(d)' /\ ReceiptKept(d)'
<1>1. day \in Nat /\ day' \in Days /\ day' \in Nat /\ day <= day'
      /\ UNCHANGED <<schedule, rows, blocked, plan, receipt, rebuilds>>
  BY ScheduleAssumption DEF CoverageTypeOK, Days, PublishComponent, Tick, coverageVars
<1>2. published' \in 0 .. day'
  BY <1>1 DEF CoverageTypeOK, PublishComponent, Tick, coverageVars
<1>3. RowsTyped'
  BY <1>1 DEF CoverageTypeOK, RowsTyped
<1>4. rebuilds' \in 0 .. MaxRebuilds
  BY <1>1 DEF CoverageTypeOK
<1>5. CoverageTypeOK'
  BY <1>1, <1>2, <1>3, <1>4, TypesStay
<1> QED BY <1>1, <1>5, FrameKeeps, BlockedStays
-----------------------------------------------------------------------------
(* The activation, the rebuilding and the opening of the store.               *)

(* What an activation rests on: the change is the only one that became     *)
(* effective since the coverage, and no row knows the entering ticker.     *)
LEMMA ActivationRests ==
  ASSUME CoverageTypeOK, Course, BlockedKept, NEW d \in Days, RowsKept(d), Activate
  PROVE  /\ blocked.prior = d /\ blocked.target \in Days /\ d < blocked.target
         /\ blocked.target <= day
         /\ GovernedChange \in schedule
         /\ d < GovernedChange.effective /\ GovernedChange.effective <= blocked.target
         /\ plan.before = RowsOn(d, d)
         /\ rows' = Activated(GovernedChange, RowsOn(d, d), blocked.target)
         /\ receipt'.change = GovernedChange /\ receipt'.target = blocked.target
         /\ GovernedChange.out \in KnownOn(d, d)
         /\ \A x \in schedule : d < x.effective /\ x.effective <= blocked.target => x = GovernedChange
         /\ \A r \in rows : r.ticker # GovernedChange.in
<1> DEFINE c == GovernedChange
<1>1. /\ blocked # None /\ blocked.candidates = {Governed}
      /\ Cardinality({x \in schedule : x.release = Governed}) = 1
      /\ blocked.prior < c.effective /\ c.effective <= blocked.target
      /\ Captured(blocked.prior) /\ c.out \in KnownOn(blocked.prior, blocked.prior)
      /\ plan.basis = blocked
  BY DEF Activate, Activatable, BasisStands, Plannable, OneBlocked
<1>2. blocked.target \in Days /\ blocked.target <= day /\ blocked.prior < blocked.target
      /\ blocked.prior \in Days
  BY <1>1, ScheduleAssumption DEF CoverageTypeOK, Days
<1>3. blocked.prior = d
  BY <1>1, <1>2, EdgeIsCoverage DEF Captured
<1>4. plan.before = RowsOn(d, d)
  BY <1>1, <1>3 DEF Activate, Activatable, LiveStands
<1>5. c \in schedule /\ \A x \in schedule : x.release = Governed <=> x = c
  BY <1>1, TheGoverned
<1>6. \A x \in schedule : d < x.effective /\ x.effective <= blocked.target => x = c
  BY <1>1, <1>3, <1>5 DEF BlockedKept
<1>7. /\ \A r \in rows : ~ (r.ticker = c.in /\ r.start >= c.effective)
      /\ rows' = Activated(c, plan.before, blocked.target)
      /\ receipt'.change = c /\ receipt'.target = blocked.target
  BY DEF Activate, Accept
<1>8. c.effective \in Nat /\ c.in \notin Baseline /\ \A b \in schedule : b.in = c.in => b = c
  BY <1>5, ChangeTyped, ScheduleAssumption DEF Days, Course, Regular
<1>9. ASSUME NEW r \in rows, r.ticker = c.in PROVE FALSE
  <2>1. Entered(r)
    BY DEF RowsKept, AsOf
  <2>2. r.start = c.effective
    BY <1>8, <1>9, <2>1 DEF Entered
  <2> QED BY <1>7, <1>8, <1>9, <2>2
<1> HIDE DEF c
<1> QED BY <1>1, <1>2, <1>3, <1>4, <1>5, <1>6, <1>7, <1>9 DEF c

LEMMA ActivateTyped ==
  ASSUME CoverageTypeOK, Course, BlockedKept, NEW d \in Days, RowsKept(d), Activate
  PROVE  RowsTyped'
<1> PICK c, B, target : c = GovernedChange /\ B = RowsOn(d, d) /\ target = blocked.target
  OBVIOUS
<1>1. /\ target \in Days /\ d < target /\ c \in schedule
      /\ d < c.effective /\ c.effective <= target
      /\ rows' = Activated(c, B, target) /\ \A r \in rows : r.ticker # c.in
  BY ActivationRests, Zenon
<1>2. B \in SUBSET rows /\ \A r \in B : r.start <= d
  BY DEF RowsOn, Standing
<1>3. /\ \A r \in rows : r \in Row /\ r.start < r.end /\ r.known <= r.start
      /\ \A r, s \in rows : r.ticker = s.ticker /\ r.start = s.start => r = s
  BY DEF CoverageTypeOK
<1>4. /\ \A r \in rows : r.start \in Nat /\ r.known \in Nat /\ r.end \in Nat
      /\ d \in Nat /\ target \in Nat /\ c.effective \in Nat /\ c.announced \in Nat
      /\ c.announced <= c.effective
  BY <1>1, <1>3, ChangeTyped, ScheduleAssumption DEF Row, Days
<1>5. ASSUME NEW x \in rows'
      PROVE  \/ x = Entering(c, target)
             \/ \E r \in rows : /\ x.ticker = r.ticker /\ x.start = r.start /\ x.known = r.known
                                /\ \/ r \notin B /\ x = r
                                   \/ r \in B /\ r.ticker # c.out /\ x = Staying(r, target)
                                   \/ r \in B /\ r.ticker = c.out /\ x = Closing(r, c)
  <2>1. CASE x \in rows \ B
    BY <2>1
  <2>2. CASE \E r \in B : r.ticker # c.out /\ x = Staying(r, target)
    BY <1>1, <1>2, <1>3, <2>2, StayingIs
  <2>3. CASE \E r \in B : r.ticker = c.out /\ x = Closing(r, c)
    BY <1>1, <1>2, <1>3, <2>3, ClosingIs
  <2> QED BY <1>1, <1>2, <2>1, <2>2, <2>3, ActivatedRows
<1>6. rows' \subseteq Row
  BY <1>1, <1>2, ActivatedTyped
<1>7. ASSUME NEW x \in rows' PROVE x.start < x.end /\ x.known <= x.start
  <2>1. CASE x = Entering(c, target)
    BY <1>1, <1>4, <2>1, EnteringIs
  <2>2. CASE x # Entering(c, target)
    <3>1. PICK r \in rows : /\ x.ticker = r.ticker /\ x.start = r.start /\ x.known = r.known
                            /\ \/ r \notin B /\ x = r
                               \/ r \in B /\ r.ticker # c.out /\ x = Staying(r, target)
                               \/ r \in B /\ r.ticker = c.out /\ x = Closing(r, c)
      BY <1>5, <2>2
    <3>2. CASE r \notin B /\ x = r
      BY <1>3, <3>2
    <3>3. CASE r \in B /\ x = Staying(r, target)
      <4>1. x.end = target + 1
        BY <1>1, <1>3, <3>3, StayingIs
      <4> QED BY <1>1, <1>2, <1>3, <1>4, <3>1, <3>3, <4>1
    <3>4. CASE r \in B /\ x = Closing(r, c)
      <4>1. x.end = c.effective
        BY <1>1, <1>3, <3>4, ClosingIs
      <4> QED BY <1>1, <1>2, <1>3, <1>4, <3>1, <3>4, <4>1
    <3> QED BY <3>1, <3>2, <3>3, <3>4
  <2> QED BY <2>1, <2>2
<1>8. Entering(c, target).ticker = c.in
  BY <1>1, EnteringIs
<1>9. ASSUME NEW x \in rows', NEW y \in rows', x.ticker = y.ticker, x.start = y.start PROVE x = y
  BY <1>1, <1>3, <1>5, <1>8, <1>9
<1> QED BY <1>6, <1>7, <1>9 DEF RowsTyped, Row

LEMMA ActivateKeeps ==
  ASSUME CoverageTypeOK, Course, BlockedKept, NEW d \in Days, RowsKept(d), Activate
  PROVE  /\ CoverageTypeOK' /\ BlockedKept'
         /\ \E t \in Days : RowsKept(t)' /\ ReceiptKept(t)'
<1> PICK c, B, target : c = GovernedChange /\ B = RowsOn(d, d) /\ target = blocked.target
  OBVIOUS
<1>1. /\ target \in Days /\ d < target /\ target <= day /\ c \in schedule
      /\ d < c.effective /\ c.effective <= target
      /\ rows' = Activated(c, B, target) /\ \A r \in rows : r.ticker # c.in
      /\ receipt'.change = c /\ receipt'.target = target
      /\ c.out \in KnownOn(d, d)
      /\ \A x \in schedule : d < x.effective /\ x.effective <= target => x = c
  BY ActivationRests, Zenon
<1>2. UNCHANGED <<schedule, day, published, blocked, plan, rebuilds>>
  BY DEF Activate, Accept
<1>3. B \in SUBSET rows /\ rows \subseteq Row
  BY DEF RowsOn, Standing, CoverageTypeOK
<1>25. /\ \A x \in rows' : \/ x \in rows \ B
                           \/ \E r \in B : r.ticker # c.out /\ x = Staying(r, target)
                           \/ \E r \in B : r.ticker = c.out /\ x = Closing(r, c)
                           \/ x = Entering(c, target)
       /\ rows \ B \subseteq rows'
       /\ \A r \in B : r.ticker # c.out => Staying(r, target) \in rows'
       /\ \A r \in B : r.ticker = c.out => Closing(r, c) \in rows'
       /\ Entering(c, target) \in rows'
  BY <1>1, <1>3 DEF Activated, Staying, Closing, Entering
<1>26. /\ \A r \in B : Staying(r, target).ticker = r.ticker /\ Staying(r, target).marked
       /\ \A r \in B : Closing(r, c).ticker = r.ticker /\ Closing(r, c).marked
       /\ Entering(c, target).ticker = c.in /\ Entering(c, target).marked
  <2>1. ASSUME NEW r \in B
        PROVE  Staying(r, target).ticker = r.ticker /\ Staying(r, target).marked
    BY <1>1, <1>3, StayingIs
  <2>2. ASSUME NEW r \in B
        PROVE  Closing(r, c).ticker = r.ticker /\ Closing(r, c).marked
    BY <1>1, <1>3, ClosingIs
  <2>3. Entering(c, target).ticker = c.in /\ Entering(c, target).marked
    BY <1>1, EnteringIs
  <2> QED BY <2>1, <2>2, <2>3
<1>4. /\ d \in Nat /\ target \in Nat /\ day \in Nat /\ c.announced \in Nat
      /\ \A x \in schedule : x.effective \in Nat
      /\ \A r \in rows : r.start \in Nat
  BY <1>1, <1>3, ChangeTyped, ScheduleAssumption DEF Days, CoverageTypeOK, Row
<1>5. /\ c.in \notin Baseline /\ \A b \in schedule : b.in = c.in \/ b.out = c.out => b = c
      /\ \A x \in schedule : x.out \in Baseline \/ \E b \in schedule : b.in = x.out /\ b.effective < x.effective
  BY <1>1 DEF Course, Regular
<1>6. \A t : t # c.out => Exit(t, target) = Exit(t, d)
  <2> SUFFICES ASSUME NEW t, t # c.out, NEW x \in schedule, x.out = t, x.effective <= target
               PROVE  x.effective <= d
    BY <1>1, <1>4 DEF Exit
  <2> QED BY <1>1, <1>4
<1>7. Exit(c.in, target) = {}
  <2> SUFFICES ASSUME NEW x \in schedule, x.out = c.in, x.effective <= target PROVE FALSE
    BY DEF Exit
  <2>1. c.effective < x.effective
    BY <1>5
  <2> QED BY <1>1, <1>4, <2>1
<1>8. c \in Exit(c.out, target)
  BY <1>1 DEF Exit
<1>9. Released(d) \subseteq Released(target) /\ c.release \in Released(target)
  BY <1>1, <1>4 DEF Released
<1>10. ASSUME NEW r \in rows, r.start <= d
       PROVE  AsOf(r, d) /\ (r \in B <=> Exit(r.ticker, d) = {})
  BY <1>10, OpenRows DEF RowsKept
<1>11. \A r \in B : r.start <= d
  BY DEF RowsOn, Standing
<1>12. ASSUME NEW r \in rows \ B, r.start <= target PROVE AsOf(r, target)
  <2>1. CASE r.start <= d
    BY <1>1, <1>4, <1>10, <2>1, EndedStays
  <2>2. CASE d < r.start
    <3>1. Entered(r)
      BY DEF RowsKept, AsOf
    <3>2. PICK b \in schedule : r.ticker = b.in /\ r.start = b.effective
      BY <1>4, <2>2, <3>1 DEF Entered
    <3>3. b = c
      BY <1>1, <1>12, <2>2, <3>2
    <3> QED BY <1>1, <3>2, <3>3
  <2> QED BY <1>4, <2>1, <2>2
<1>13. ASSUME NEW r \in B, r.ticker # c.out PROVE AsOf(Staying(r, target), target)
  <2>1. AsOf(r, d) /\ Exit(r.ticker, target) = {} /\ r.start <= target
    BY <1>1, <1>3, <1>4, <1>6, <1>10, <1>11, <1>13
  <2>2. /\ Staying(r, target).ticker = r.ticker /\ Staying(r, target).start = r.start
        /\ Staying(r, target).known = r.known /\ Staying(r, target).releases = r.releases
        /\ Staying(r, target).end = target + 1 /\ Staying(r, target).endKnown = target
    BY <1>1, <1>3, StayingIs
  <2>3. r.releases \subseteq Released(target)
    BY <1>9, <2>1 DEF AsOf
  <2> QED BY <2>1, <2>2, <2>3 DEF AsOf, Left, Entered
<1>14. ASSUME NEW r \in B, r.ticker = c.out PROVE AsOf(Closing(r, c), target)
  <2>1. AsOf(r, d) /\ r.start <= target
    BY <1>1, <1>3, <1>4, <1>10, <1>11
  <2>2. /\ Closing(r, c).ticker = c.out /\ Closing(r, c).start = r.start
        /\ Closing(r, c).known = r.known /\ Closing(r, c).releases = r.releases
        /\ Closing(r, c).end = c.effective /\ Closing(r, c).endKnown = c.announced
    BY <1>1, <1>3, <1>14, ClosingIs
  <2>3. r.releases \subseteq Released(target)
    BY <1>9, <2>1 DEF AsOf
  <2> QED BY <1>8, <1>14, <2>1, <2>2, <2>3 DEF AsOf, Left, Entered
<1>15. AsOf(Entering(c, target), target)
  <2>1. /\ Entering(c, target).ticker = c.in /\ Entering(c, target).start = c.effective
        /\ Entering(c, target).known = c.announced /\ Entering(c, target).releases = {c.release}
        /\ Entering(c, target).end = target + 1 /\ Entering(c, target).endKnown = target
    BY <1>1, EnteringIs
  <2> QED BY <1>1, <1>7, <1>9, <2>1 DEF AsOf, Left, Entered
<1>16. ASSUME NEW x \in rows'
       PROVE  (x \in rows \ B \/ AsOf(x, target)) /\ (x.start <= target => AsOf(x, target))
  BY <1>1, <1>3, <1>12, <1>13, <1>14, <1>15, <1>25
<1>17. ASSUME NEW r \in rows PROVE \E x \in rows' : x.ticker = r.ticker
  <2>1. CASE r \notin B
    BY <1>25, <2>1
  <2>2. CASE r \in B /\ r.ticker # c.out
    BY <1>1, <1>25, <1>26, <2>2
  <2>3. CASE r \in B /\ r.ticker = c.out
    BY <1>1, <1>25, <1>26, <2>3
  <2> QED BY <2>1, <2>2, <2>3
<1>18. \E x \in rows' : x.ticker = c.in
  BY <1>25, <1>26
<1>19. RowsKept(target)'
  <2>1. target \in 0 .. day /\ \A r \in rows : \E e \in 0 .. day : AsOf(r, e)
    BY <1>1, <1>4 DEF RowsKept
  <2>2. \A x \in rows' : \E e \in 0 .. day : AsOf(x, e)
    BY <1>16, <2>1
  <2>3. /\ \A x \in rows' : \E e \in 0 .. day : AsOf(x, e)'
        /\ \A x \in rows' : x.start <= target => AsOf(x, target)'
    BY <1>2, <1>16, <2>2, SameCourse
  <2>4. \A t \in Baseline : \E x \in rows' : x.ticker = t
    BY <1>17 DEF RowsKept
  <2>5. ASSUME NEW b \in schedule, b.effective <= target PROVE \E x \in rows' : x.ticker = b.in
    <3>1. CASE b.effective <= d
      BY <1>17, <3>1 DEF RowsKept
    <3>2. CASE d < b.effective
      BY <1>1, <1>18, <2>5, <3>2
    <3> QED BY <1>4, <3>1, <3>2
  <2> QED BY <1>2, <2>1, <2>3, <2>4, <2>5 DEF RowsKept
<1>20. PICK o \in B : o.ticker = c.out
  BY <1>1 DEF KnownOn
<1>21. ASSUME NEW x \in rows', x.ticker \in {c.in, c.out} PROVE x.marked
  <2>1. ASSUME x \in rows \ B PROVE FALSE
    <3>1. x.ticker = o.ticker /\ x \in rows /\ o \in rows
      BY <1>1, <1>3, <1>20, <1>21, <2>1
    <3>2. x = o
      BY <3>1, OneRow
    <3> QED BY <2>1, <3>2
  <2> QED BY <1>25, <1>26, <2>1
<1>22. ReceiptKept(target)'
  <2>1. Exit(c.in, target)' = {}
    BY <1>1, <1>2, <1>7, SameCourse
  <2>2. target \in Nat /\ target <= target
    BY <1>4
  <2> QED BY <1>1, <1>2, <1>21, <2>1, <2>2 DEF ReceiptKept
<1>23. CoverageTypeOK'
  <2>1. RowsTyped'
    BY ActivateTyped
  <2>2. receipt' # None => receipt'.change \in schedule' /\ receipt'.target \in 0 .. day'
    BY <1>1, <1>2, <1>4
  <2> QED BY <1>2, <2>1, <2>2 DEF CoverageTypeOK, RowsTyped
<1>24. BlockedKept'
  BY <1>2, BlockedStays
<1> QED BY <1>1, <1>19, <1>22, <1>23, <1>24
-----------------------------------------------------------------------------
(* Rebuilding the rows, and the opening of the store.                      *)

LEMMA RefTyped ==
  ASSUME rows \subseteq Row, NEW t, NEW s
  PROVE  RefOf(t, s) \in 0 .. MaxDay + 1
<1> DEFINE own == {r \in rows : r.ticker = t /\ r.start = s}
<1>1. CASE own = {}
  <2>1. RefOf(t, s) = 0
    BY <1>1 DEF RefOf
  <2> QED BY <2>1, ScheduleAssumption
<1>2. CASE own # {}
  <2>1. (CHOOSE r \in own : TRUE) \in own
    BY <1>2
  <2>2. RefOf(t, s) = (CHOOSE r \in own : TRUE).ref
    BY <1>2 DEF RefOf
  <2>3. \A r \in own : r.ref \in 0 .. MaxDay + 1
    BY DEF Row
  <2> HIDE DEF own
  <2> QED BY <2>1, <2>2, <2>3
<1> QED BY <1>1, <1>2

(* What is built from the events says what is known on the day.            *)
LEMMA IntervalIs ==
  ASSUME Course, rows \subseteq Row, NEW t \in Ticker, NEW s \in Days, NEW k \in Days, k <= s,
         NEW sources \in SUBSET {c.release : c \in UNION Schedules},
         NEW d \in Days, s <= d, sources \subseteq Released(d),
         \/ t \in Baseline /\ s = 0 /\ k = 0
         \/ \E b \in schedule : t = b.in /\ s = b.effective /\ k = b.announced
  PROVE  LET x == Interval(t, s, k, sources, d) IN
         x \in Row /\ x.ticker = t /\ x.start = s /\ s < x.end /\ x.known = k /\ AsOf(x, d)
<1> DEFINE x == Interval(t, s, k, sources, d)
           gone == Exit(t, d)
           last == CHOOSE c \in gone : TRUE
<1>1. d \in Nat /\ s \in Nat /\ gone \subseteq schedule
  BY ScheduleAssumption DEF Days, Exit
<1>2. gone # {} => last \in gone
  OBVIOUS
<1>3. {c.release : c \in gone} \subseteq Released(d)
  BY DEF Exit, Released
<1>4. {c.release : c \in gone} \subseteq {c.release : c \in UNION Schedules}
  BY <1>1 DEF Course
<1>5. ASSUME NEW c \in gone PROVE s < c.effective
  <2>1. c \in schedule /\ c.out = t /\ c.effective \in Nat /\ 0 < c.effective
    BY <1>1, ChangeTyped, ScheduleAssumption DEF Exit, Days
  <2>2. CASE t \in Baseline /\ s = 0
    BY <2>1, <2>2
  <2>3. CASE \E b \in schedule : t = b.in /\ s = b.effective
    <3>1. PICK b \in schedule : t = b.in /\ s = b.effective
      BY <2>3
    <3>2. PICK a \in schedule : a.in = c.out /\ a.effective < c.effective
      BY <2>1, <3>1 DEF Course, Regular
    <3>3. a = b
      BY <2>1, <3>1, <3>2 DEF Course, Regular
    <3> QED BY <3>1, <3>2, <3>3
  <2> QED BY <2>2, <2>3
<1>6. PICK end, endKnown, releases, ref :
         /\ end = IF gone = {} THEN d + 1 ELSE last.effective
         /\ endKnown = IF gone = {} THEN d ELSE last.announced
         /\ releases = sources \cup {c.release : c \in gone}
         /\ ref = RefOf(t, s)
  OBVIOUS
<1>7. x = [ticker |-> t, start |-> s, known |-> k, marked |-> FALSE, ref |-> ref,
           end |-> end, endKnown |-> endKnown, releases |-> releases]
  BY <1>6 DEF Interval
<1>8. /\ end \in 1 .. MaxDay + 1 /\ s < end /\ endKnown \in Days
      /\ releases \in SUBSET {c.release : c \in UNION Schedules} /\ releases \subseteq Released(d)
      /\ ref \in 0 .. MaxDay + 1
  <2>1. releases \in SUBSET {c.release : c \in UNION Schedules} /\ releases \subseteq Released(d)
    <3> HIDE DEF gone
    <3> QED BY <1>3, <1>4, <1>6
  <2>2. ref \in 0 .. MaxDay + 1
    BY <1>6, RefTyped
  <2>3. CASE gone = {}
    <3>1. end = d + 1 /\ endKnown = d
      BY <1>6, <2>3
    <3> QED BY <1>1, <2>1, <2>2, <3>1, ScheduleAssumption DEF Days
  <2>4. CASE gone # {}
    <3>1. last \in schedule /\ s < last.effective
      BY <1>1, <1>2, <1>5, <2>4
    <3>2. last.effective \in Days /\ last.announced \in Days
      BY <3>1, ChangeTyped
    <3>3. end = last.effective /\ endKnown = last.announced
      BY <1>6, <2>4
    <3> HIDE DEF last, gone
    <3> QED BY <1>1, <2>1, <2>2, <3>1, <3>2, <3>3, ScheduleAssumption DEF Days
  <2> QED BY <2>3, <2>4
<1>9. x.ticker = t /\ x.start = s /\ x.known = k /\ x.end = end /\ x.endKnown = endKnown
      /\ x.releases = releases
  <2> HIDE DEF x
  <2> QED BY <1>7
<1>10. x \in Row
  <2> HIDE DEF x
  <2> QED BY <1>7, <1>8 DEF Row
<1>11. Left(x, d)
  <2>1. CASE gone = {}
    <3>1. end = d + 1 /\ endKnown = d
      BY <1>6, <2>1
    <3> HIDE DEF x
    <3> QED BY <1>9, <2>1, <3>1 DEF Left
  <2>2. CASE gone # {}
    <3>1. last \in Exit(t, d) /\ end = last.effective /\ endKnown = last.announced
      BY <1>2, <1>6, <2>2
    <3> HIDE DEF x, last
    <3> QED BY <1>9, <3>1 DEF Left
  <2> QED BY <2>1, <2>2
<1> HIDE DEF x
<1>12. AsOf(x, d)
  BY <1>8, <1>9, <1>11 DEF AsOf, Entered
<1>13. x \in Row /\ x.ticker = t /\ x.start = s /\ s < x.end /\ x.known = k /\ AsOf(x, d)
  BY <1>8, <1>9, <1>10, <1>12
<1> QED BY <1>13 DEF x

LEMMA BuiltIs ==
  ASSUME Course, rows \subseteq Row, NEW d \in Days
  PROVE  /\ \A x \in Built(d) : x \in Row /\ x.start < x.end /\ x.known <= x.start /\ AsOf(x, d)
         /\ \A x, y \in Built(d) : x.ticker = y.ticker => x = y
         /\ \A t \in Baseline : \E x \in Built(d) : x.ticker = t /\ x.start = 0
         /\ \A b \in schedule : b.effective <= d =>
                 \E x \in Built(d) : x.ticker = b.in /\ x.start = b.effective
<1> DEFINE base(t) == Interval(t, 0, 0, {}, d)
           entry(c) == Interval(c.in, c.effective, c.announced, {c.release}, d)
           E == {x \in schedule : x.effective <= d}
<1>1. ASSUME NEW t \in Baseline
      PROVE  /\ base(t) \in Row /\ base(t).ticker = t /\ base(t).start = 0 /\ 0 < base(t).end
             /\ base(t).known = 0 /\ AsOf(base(t), d)
  <2>1. t \in Ticker /\ 0 \in Days /\ 0 <= 0 /\ 0 <= d /\ {} \subseteq Released(d)
        /\ {} \in SUBSET {c.release : c \in UNION Schedules}
    BY ScheduleAssumption DEF Days
  <2> QED BY <2>1, IntervalIs
<1>2. ASSUME NEW c \in E
      PROVE  /\ entry(c) \in Row /\ entry(c).ticker = c.in /\ entry(c).start = c.effective
             /\ c.effective < entry(c).end /\ entry(c).known = c.announced /\ AsOf(entry(c), d)
             /\ c.announced <= c.effective
  <2>1. /\ c \in schedule /\ c.in \in Ticker /\ c.effective \in Days /\ c.announced \in Days
        /\ c.announced <= c.effective /\ c.effective <= d
        /\ {c.release} \in SUBSET {x.release : x \in UNION Schedules}
        /\ {c.release} \subseteq Released(d)
    BY ChangeTyped DEF Released
  <2>2. \E b \in schedule : c.in = b.in /\ c.effective = b.effective /\ c.announced = b.announced
    BY <2>1
  <2> QED BY <2>1, <2>2, IntervalIs
<1>3. Built(d) = {base(t) : t \in Baseline} \cup {entry(c) : c \in E}
  BY DEF Built
<1>4. /\ \A x \in Built(d) : (\E t \in Baseline : x = base(t)) \/ (\E c \in E : x = entry(c))
      /\ \A t \in Baseline : base(t) \in Built(d)
      /\ \A c \in E : entry(c) \in Built(d)
  BY <1>3
<1> HIDE DEF base, entry
<1>5. \A x \in Built(d) : x \in Row /\ x.start < x.end /\ x.known <= x.start /\ AsOf(x, d)
  BY <1>1, <1>2, <1>4
<1>6. /\ \A t \in Baseline : \A c \in E : t # c.in
      /\ \A b, c \in E : b.in = c.in => b = c
  BY DEF Course, Regular
<1>7. \A x, y \in Built(d) : x.ticker = y.ticker => x = y
  BY <1>1, <1>2, <1>4, <1>6
<1>8. \A t \in Baseline : \E x \in Built(d) : x.ticker = t /\ x.start = 0
  BY <1>1, <1>4
<1>9. \A b \in schedule : b.effective <= d => \E x \in Built(d) : x.ticker = b.in /\ x.start = b.effective
  BY <1>2, <1>4
<1> QED BY <1>5, <1>7, <1>8, <1>9

LEMMA RebuildKeeps ==
  ASSUME CoverageTypeOK, Course, BlockedKept, NEW d \in Days, RowsKept(d), NEW e \in Days, Rebuild(e)
  PROVE  CoverageTypeOK' /\ BlockedKept' /\ RowsKept(e)' /\ ReceiptKept(e)'
<1> DEFINE kept == {r \in rows : \A b \in Built(e) : ~ (b.ticker = r.ticker /\ b.start = r.start)}
<1>1. /\ rows' = Built(e) \cup kept /\ e <= published
      /\ LateRebuilds \/ receipt = None
      /\ rebuilds < MaxRebuilds /\ rebuilds' = rebuilds + 1
      /\ UNCHANGED <<schedule, day, published, blocked, plan, receipt>>
  BY DEF Rebuild
<1>2. /\ e \in Nat /\ day \in Nat /\ day \in Days /\ published \in 0 .. day /\ e \in 0 .. day
      /\ \A c \in schedule : c.effective \in Nat
  BY <1>1, ChangeTyped, ScheduleAssumption DEF Days, CoverageTypeOK
<1>3. rows \subseteq Row /\ kept \subseteq rows
  BY DEF CoverageTypeOK
<1>4. /\ \A x \in Built(e) : x \in Row /\ x.start < x.end /\ x.known <= x.start /\ AsOf(x, e)
      /\ \A x, y \in Built(e) : x.ticker = y.ticker => x = y
      /\ \A t \in Baseline : \E x \in Built(e) : x.ticker = t /\ x.start = 0
      /\ \A b \in schedule : b.effective <= e =>
              \E x \in Built(e) : x.ticker = b.in /\ x.start = b.effective
  BY <1>3, BuiltIs
<1>5. ASSUME NEW r \in kept PROVE e < r.start
  <2>1. Entered(r)
    BY <1>3 DEF RowsKept, AsOf
  <2>2. ~ (r.ticker \in Baseline /\ r.start = 0)
    BY <1>4
  <2>3. PICK b \in schedule : r.ticker = b.in /\ r.start = b.effective
    BY <2>1, <2>2 DEF Entered
  <2>4. ~ (b.effective <= e)
    BY <1>4, <2>3
  <2> QED BY <1>2, <2>3, <2>4
<1>6. RowsTyped'
  <2>1. \A r \in kept : r \in Row /\ r.start < r.end /\ r.known <= r.start
    BY <1>3 DEF CoverageTypeOK
  <2>2. \A r, s \in kept : r.ticker = s.ticker /\ r.start = s.start => r = s
    BY <1>3 DEF CoverageTypeOK
  <2>3. \A r \in kept : \A b \in Built(e) : ~ (b.ticker = r.ticker /\ b.start = r.start)
    OBVIOUS
  <2> HIDE DEF kept
  <2> QED BY <1>1, <1>4, <2>1, <2>2, <2>3 DEF RowsTyped, Row
<1>7. CoverageTypeOK'
  <2>1. rebuilds' \in 0 .. MaxRebuilds
    BY <1>1, ScheduleAssumption DEF CoverageTypeOK
  <2> QED BY <1>1, <1>2, <1>6, <2>1, TypesStay
<1>8. RowsKept(e)'
  <2>1. \A r \in rows' : \E k \in 0 .. day : AsOf(r, k)
    BY <1>1, <1>2, <1>3, <1>4 DEF RowsKept
  <2>2. ASSUME NEW r \in rows', r.start <= e PROVE AsOf(r, e)
    <3>1. CASE r \in kept
      <4>1. e < r.start /\ r.start \in Nat
        BY <1>3, <1>5, <3>1, ScheduleAssumption DEF Row, Days
      <4> QED BY <1>2, <2>2, <4>1
    <3> QED BY <1>1, <1>4, <3>1
  <2>3. /\ \A r \in rows' : \E k \in 0 .. day : AsOf(r, k)'
        /\ \A r \in rows' : r.start <= e => AsOf(r, e)'
    BY <1>1, <2>1, <2>2, SameCourse
  <2>4. /\ \A t \in Baseline : \E r \in rows' : r.ticker = t
        /\ \A b \in schedule : b.effective <= e => \E r \in rows' : r.ticker = b.in
    BY <1>1, <1>4
  <2> QED BY <1>1, <1>2, <2>3, <2>4 DEF RowsKept
<1> QED BY <1>1, <1>7, <1>8, BlockedStays DEF ReceiptKept

LEMMA ReferencesKeep ==
  ASSUME CoverageTypeOK, Course, BlockedKept, NEW d \in Days, RowsKept(d), ReceiptKept(d), RebuildReferences
  PROVE  CoverageTypeOK' /\ BlockedKept' /\ RowsKept(d)' /\ ReceiptKept(d)'
<1> DEFINE N(r) == [r EXCEPT !.ref = r.end]
<1>1. rows' = {N(r) : r \in rows}
      /\ UNCHANGED <<schedule, day, published, blocked, plan, receipt, rebuilds>>
  BY DEF RebuildReferences
<1>2. ASSUME NEW r \in rows
      PROVE  /\ N(r) \in Row /\ N(r).ticker = r.ticker /\ N(r).start = r.start
             /\ N(r).end = r.end /\ N(r).known = r.known /\ N(r).endKnown = r.endKnown
             /\ N(r).releases = r.releases /\ N(r).marked = r.marked
  <2>1. r \in Row
    BY DEF CoverageTypeOK
  <2>2. PICK u : u = r.end /\ u \in 0 .. MaxDay + 1
    BY <2>1, ScheduleAssumption DEF Row
  <2>3. r.marked \in BOOLEAN /\ N(r) = [r EXCEPT !.ref = u]
    BY <2>1, <2>2 DEF Row
  <2> DEFINE q == [r EXCEPT !.ref = u]
  <2>4. q \in Row
    BY <2>1, <2>2 DEF Row
  <2>5. /\ q.ticker = r.ticker /\ q.start = r.start
        /\ q.end = r.end /\ q.known = r.known /\ q.endKnown = r.endKnown
        /\ q.releases = r.releases
    BY <2>1 DEF Row
  <2>6. q.marked = r.marked
    BY <2>1 DEF Row
  <2> HIDE DEF q
  <2> QED BY <2>3, <2>4, <2>5, <2>6 DEF q
<1> HIDE DEF N
<1>3. ASSUME NEW x \in rows'
      PROVE  \E r \in rows : /\ x = N(r) /\ x \in Row /\ x.ticker = r.ticker /\ x.start = r.start
                             /\ x.end = r.end /\ x.known = r.known /\ x.endKnown = r.endKnown
                             /\ x.releases = r.releases /\ x.marked = r.marked
  BY <1>1, <1>2
<1>4. RowsTyped'
  BY <1>3 DEF CoverageTypeOK, RowsTyped, Row
<1>5. day \in Nat /\ day \in Days /\ published \in 0 .. day
  BY ScheduleAssumption DEF CoverageTypeOK, Days
<1>6. CoverageTypeOK'
  <2>1. rebuilds' \in 0 .. MaxRebuilds
    BY <1>1 DEF CoverageTypeOK
  <2> QED BY <1>1, <1>4, <1>5, <2>1, TypesStay
<1>7. ASSUME NEW x \in rows', NEW r \in rows,
             x.ticker = r.ticker, x.start = r.start, x.end = r.end, x.known = r.known,
             x.endKnown = r.endKnown, x.releases = r.releases, NEW e, AsOf(r, e)
      PROVE  AsOf(x, e)
  BY <1>7 DEF AsOf, Entered, Left
<1>8. RowsKept(d)'
  <2>1. \A x \in rows' : \E e \in 0 .. day : AsOf(x, e)
    BY <1>3, <1>7 DEF RowsKept
  <2>2. \A x \in rows' : x.start <= d => AsOf(x, d)
    BY <1>3, <1>7 DEF RowsKept
  <2>3. /\ \A x \in rows' : \E e \in 0 .. day : AsOf(x, e)'
        /\ \A x \in rows' : x.start <= d => AsOf(x, d)'
    BY <1>1, <2>1, <2>2, SameCourse
  <2>4. \A r \in rows : \E x \in rows' : x.ticker = r.ticker
    BY <1>1, <1>2
  <2>5. /\ \A t \in Baseline : \E r \in rows' : r.ticker = t
        /\ \A b \in schedule : b.effective <= d => \E r \in rows' : r.ticker = b.in
    BY <2>4 DEF RowsKept
  <2> QED BY <1>1, <2>3, <2>5 DEF RowsKept
<1>9. ReceiptKept(d)'
  <2>1. Exit(receipt.change.in, d)' = Exit(receipt.change.in, d)
    BY <1>1, SameCourse
  <2>2. \A x \in rows' : \E r \in rows : x.ticker = r.ticker /\ x.marked = r.marked
    BY <1>3
  <2> QED BY <1>1, <2>1, <2>2 DEF ReceiptKept
<1> QED BY <1>1, <1>6, <1>8, <1>9, BlockedStays

LEMMA ReceiptBorneOut ==
  ASSUME CoverageTypeOK, Course, NEW d \in Days, RowsKept(d), ReceiptKept(d), ~ LateRebuilds
  PROVE  Opens
<1> SUFFICES ASSUME receipt # None PROVE Opens
  BY DEF Opens
<1> PICK c : c = receipt.change
  OBVIOUS
<1>1. /\ c \in schedule /\ receipt.target \in Nat /\ receipt.target <= d
      /\ c.effective <= receipt.target /\ Exit(c.in, d) = {}
      /\ \A r \in rows : r.ticker \in {c.in, c.out} => r.marked
  BY DEF ReceiptKept
<1>2. d \in Nat /\ \A x \in schedule : x.effective \in Nat
  BY ChangeTyped, ScheduleAssumption DEF Days
<1>3. c.effective <= d
  BY <1>1, <1>2
<1>4. PICK n \in rows : n.ticker = c.in
  BY <1>1, <1>3 DEF RowsKept
<1>5. n.start = c.effective /\ n.known = c.announced
  BY <1>1, <1>4 DEF RowsKept, AsOf, Entered, Course, Regular
<1>6. n.end = d + 1
  BY <1>1, <1>3, <1>4, <1>5 DEF RowsKept, AsOf, Left
<1>7. n.end >= receipt.target + 1 /\ n.marked
  BY <1>1, <1>2, <1>4, <1>6
<1>8. c.out \in Baseline \/ \E b \in schedule : b.in = c.out /\ b.effective < c.effective
  BY <1>1 DEF Course, Regular
<1>9. PICK o \in rows : o.ticker = c.out
  BY <1>1, <1>2, <1>3, <1>8 DEF RowsKept
<1>10. o.start <= d
  <2>1. Entered(o)
    BY DEF RowsKept, AsOf
  <2>2. CASE o.ticker \in Baseline /\ o.start = 0
    BY <1>2, <2>2
  <2>3. CASE \E b \in schedule : o.ticker = b.in /\ o.start = b.effective
    <3>1. PICK b \in schedule : o.ticker = b.in /\ o.start = b.effective
      BY <2>3
    <3>2. b.effective < c.effective
      BY <1>8, <1>9, <3>1 DEF Course, Regular
    <3> QED BY <1>1, <1>2, <1>3, <3>1, <3>2
  <2> QED BY <2>1, <2>2, <2>3 DEF Entered
<1>11. AsOf(o, d) /\ c \in Exit(c.out, d)
  BY <1>1, <1>3, <1>10 DEF RowsKept, Exit
<1>12. o.end = c.effective /\ o.endKnown = c.announced
  BY <1>1, <1>9, <1>11 DEF AsOf, Left, Exit, Course, Regular
<1>13. o.marked
  BY <1>1, <1>9
<1> DEFINE O == {r \in rows : r.ticker = c.out /\ r.end = c.effective}
<1>14. O = {o}
  BY <1>9, <1>12, OneRow
<1>15. Cardinality(O) = 1
  <2> HIDE DEF O
  <2> QED BY <1>14, FS_Singleton, Zenon
<1> QED BY <1>4, <1>5, <1>7, <1>9, <1>12, <1>13, <1>15 DEF Opens

-----------------------------------------------------------------------------
(* The theorems.                                                           *)

LEMMA InitKept ==
  ASSUME CoverageInit, \A s \in Schedules : Regular(s) /\ Noticed(s)
  PROVE  Course /\ CoverageIInv
<1>1. Course
  BY DEF CoverageInit, Course
<1>2. MaxDay \in Nat /\ 0 \in Days /\ Baseline \subseteq Ticker
      /\ \A c \in schedule : 0 < c.effective /\ c.effective \in Nat
  BY <1>1, ChangeTyped, ScheduleAssumption DEF Days
<1> DEFINE N(t) == [ticker |-> t, start |-> 0, end |-> 1, known |-> 0, endKnown |-> 0,
                    releases |-> {}, marked |-> FALSE, ref |-> 1]
<1>3. /\ rows = {N(t) : t \in Baseline} /\ day = 0 /\ published = 0
      /\ blocked = None /\ plan = None /\ receipt = None /\ rebuilds = 0
  BY DEF CoverageInit
<1>4. \A t \in Baseline : N(t) \in Row
  <2>1. 0 \in Days /\ 1 \in 1 .. MaxDay + 1 /\ 1 \in 0 .. MaxDay + 1
        /\ {} \in SUBSET {c.release : c \in UNION Schedules}
    BY <1>2
  <2> QED BY <1>2, <2>1 DEF Row
<1>5. \A t : /\ N(t).ticker = t /\ N(t).start = 0 /\ N(t).end = 1 /\ N(t).known = 0
             /\ N(t).endKnown = 0 /\ N(t).releases = {}
  OBVIOUS
<1> HIDE DEF N
<1>6. RowsTyped
  BY <1>3, <1>4, <1>5 DEF RowsTyped
<1>7. CoverageTypeOK
  BY <1>1, <1>2, <1>3, <1>6, ScheduleAssumption DEF CoverageTypeOK, RowsTyped, Course
<1>8. \A t : Exit(t, 0) = {}
  BY <1>2 DEF Exit
<1>9. \A t \in Baseline : AsOf(N(t), 0)
  BY <1>5, <1>8 DEF AsOf, Entered, Left
<1>10. RowsKept(0)
  BY <1>2, <1>3, <1>5, <1>9 DEF RowsKept
<1> QED BY <1>1, <1>2, <1>3, <1>7, <1>10 DEF CoverageIInv, BlockedKept, ReceiptKept

LEMMA StepKept ==
  ASSUME Course, CoverageIInv, [CoverageNext]_coverageVars
  PROVE  Course' /\ CoverageIInv'
<1>1. PICK d \in Days : RowsKept(d) /\ ReceiptKept(d)
  BY DEF CoverageIInv
<1>2. CoverageTypeOK /\ BlockedKept
  BY DEF CoverageIInv
<1>3. schedule' = schedule
  BY DEF CoverageNext, Extend, Block, Prepare, PrepareOn, Activate, Accept, Rebuild, RebuildReferences,
         PublishComponent, Tick, coverageVars
<1>4. Course'
  BY <1>3, SameCourse
<1> DEFINE Kept == CoverageTypeOK' /\ BlockedKept' /\ \E e \in Days : RowsKept(e)' /\ ReceiptKept(e)'
<1>5. Kept
  <2>1. ASSUME NEW t \in Days, Extend(t) PROVE Kept
    <3>1. RowsTyped' /\ RowsKept(t)' /\ ReceiptKept(t)'
      BY <1>1, <1>2, <2>1, ExtendTyped, ExtendKeeps
    <3>2. UNCHANGED <<schedule, day, published, blocked, plan, receipt, rebuilds>>
      BY <2>1 DEF Extend
    <3>3. day \in Days /\ day \in Nat /\ published \in 0 .. day /\ rebuilds \in 0 .. MaxRebuilds
      BY <1>2, ScheduleAssumption DEF CoverageTypeOK, Days
    <3>4. CoverageTypeOK'
      BY <1>2, <3>1, <3>2, <3>3, TypesStay
    <3> QED BY <1>2, <3>1, <3>2, <3>4, BlockedStays
  <2>2. ASSUME NEW t \in Days, Block(t) PROVE Kept
    BY <1>1, <1>2, <2>2, BlockKeeps
  <2>3. ASSUME NEW h \in Days, Prepare(h) PROVE Kept
    BY <1>1, <1>2, <2>3, PrepareKeeps
  <2>4. CASE Activate
    BY <1>1, <1>2, <2>4, ActivateKeeps
  <2>5. ASSUME NEW e \in Days, Rebuild(e) PROVE Kept
    BY <1>1, <1>2, <2>5, RebuildKeeps
  <2>6. CASE RebuildReferences
    BY <1>1, <1>2, <2>6, ReferencesKeep
  <2>7. CASE PublishComponent \/ Tick \/ UNCHANGED coverageVars
    BY <1>1, <1>2, <2>7, WorldKeeps
  <2> QED BY <2>1, <2>2, <2>3, <2>4, <2>5, <2>6, <2>7 DEF CoverageNext
<1> QED BY <1>4, <1>5 DEF CoverageIInv

(* The coverage is true.  In every course of events in which no ticker     *)
(* enters or leaves twice, the changes of one release have one day, and    *)
(* each change is announced at most one session before it is effective (or *)
(* one page of the archive reaches over all days), whatever is extended,   *)
(* blocked, activated or rebuilt and in whatever order, what the rows say  *)
(* that a day knew of the members of a certified day is what was           *)
(* officially known (universe_membership_known_on).                        *)
THEOREM CoverageTrue ==
  ASSUME \A s \in Schedules : Regular(s) /\ Noticed(s)
  PROVE  CoverageSpec => []PointInTime
<1>1. CoverageInit => Course /\ CoverageIInv
  BY InitKept
<1>2. Course /\ CoverageIInv /\ [CoverageNext]_coverageVars => Course' /\ CoverageIInv'
  BY StepKept
<1>3. Course /\ CoverageIInv => PointInTime
  BY KnownIsOfficial DEF CoverageIInv
<1> QED BY <1>1, <1>2, <1>3, PTL DEF CoverageSpec

(* The store stays open.  In the same courses, when the operator does not  *)
(* rebuild the rows after an activation, the rows keep their types and     *)
(* every later command finds the receipt borne out by them                 *)
(* (_require_receipt_lineage).                                             *)
THEOREM StoreHolds ==
  ASSUME \A s \in Schedules : Regular(s) /\ Noticed(s), LateRebuilds = FALSE
  PROVE  CoverageSpec => []StoreInv
<1>1. CoverageInit => Course /\ CoverageIInv
  BY InitKept
<1>2. Course /\ CoverageIInv /\ [CoverageNext]_coverageVars => Course' /\ CoverageIInv'
  BY StepKept
<1>3. Course /\ CoverageIInv => StoreInv
  BY ReceiptBorneOut DEF CoverageIInv, StoreInv, StoreOpens
<1> QED BY <1>1, <1>2, <1>3, PTL DEF CoverageSpec
=============================================================================
