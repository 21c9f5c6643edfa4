------------------------- MODULE IncidentLedger_proofs -------------------------
(***************************************************************************)
(* Proofs about IncidentLedger.  The ledger recomputes from its events how *)
(* an incident was closed.  Structure ties the row to the events, Timely   *)
(* says in which order the times of the wall clock stand until it is set   *)
(* back, and Told ties the messages of recovery to the closings.           *)
(***************************************************************************)
EXTENDS IncidentLedger, WellFoundedInduction, FiniteSetTheorems, TLAPS

Structure ==
    /\ incident.state = "absent" <=> events = <<>>
    /\ events # <<>> => 1 \in Generations
    /\ incident.state = "resolved" <=> Resolutions # {}

\* A command has read the row as it is, or as it was, and then took the time.
Held ==
    \A p \in Process :
        /\ held[p].pc \in {"emit", "operate", "recover"} => held[p].at \in 0..MaxClock
        /\ held[p].pc \in {"read", "observed", "operate", "recover"} =>
              held[p].evidence.state # "absent"
        /\ held[p].evidence.count <= incident.count

\* Nothing is dated later than now, and a command that has read the present row
\* took the time after each occurrence that opened it.
Timely ==
    setBacks = 0 =>
        /\ \A i \in DOMAIN events : events[i].at <= clock
        /\ \A p \in Process : held[p].at <= clock
        /\ \A p \in Process : \A g \in Generations :
              held[p].pc \in {"operate", "recover"}
              /\ held[p].evidence.count = incident.count => events[g].at <= held[p].at

Closing(i) == i \in EventsOf({"resolved"}) /\ events[i].proof.transitioned

\* The messages of recovery are those of the closings, of which no two belong
\* to one generation.
Told ==
    /\ \A m \in messages : m.kind = "resolved" => incident.notify /\ Closing(m.event)
    /\ \A i \in DOMAIN events :
          Closing(i) /\ incident.notify => [event |-> i, kind |-> "resolved"] \in messages
    /\ \A i, j \in DOMAIN events :
          Closing(i) /\ Closing(j) /\ i < j => \E h \in Generations : i < h /\ h < j

BaseInv == TypeOK /\ Structure /\ Held /\ Timely /\ Told

IInv == BaseInv /\ ClosedWithProof

-----------------------------------------------------------------------------
(* The latest of some events.                                              *)

LEMMA MaxOf ==
    ASSUME NEW n \in Nat, NEW S \in SUBSET (1..n), S # {}
    PROVE  Max(S) \in S /\ \A x \in S : x <= Max(S)
<1> DEFINE T == {n - x : x \in S}
<1>1. T \subseteq Nat /\ T # {}
  <2>1. \A x \in S : n - x \in Nat
    OBVIOUS
  <2> QED BY <2>1 DEF T
<1> HIDE DEF T
<1>2. PICK t \in T : \A y \in T : ~(<<y, t>> \in OpToRel(<, Nat))
  BY <1>1, NatLessThanWellFounded, WFMin
<1>3. \A y \in T : ~(y < t)
  <2> SUFFICES ASSUME NEW y \in T PROVE ~(y < t)
    OBVIOUS
  <2>1. y \in Nat /\ t \in Nat /\ <<y, t>> \notin OpToRel(<, Nat)
    BY <1>1, <1>2
  <2> QED BY <2>1, Zenon DEF OpToRel
<1>4. PICK m \in S : t = n - m
  BY <1>2 DEF T
<1>5. \A x \in S : n - x \in T
  BY DEF T
<1>6. \A x \in S : m >= x
  BY <1>1, <1>3, <1>4, <1>5
<1>7. Max(S) \in S /\ \A x \in S : Max(S) >= x
  BY <1>6, Zenon DEF Max
<1> QED BY <1>7

LEMMA MaxAdded ==
    ASSUME NEW n \in Nat, NEW S \in SUBSET (1..n)
    PROVE  Max(S \cup {n + 1}) = n + 1
<1> PICK m \in Nat : m = n + 1
  OBVIOUS
<1>1. \A x \in S : x \in Int /\ x <= n
  OBVIOUS
<1>2. \A x \in S \cup {m} : x \in Int /\ x <= m
  BY <1>1
<1>3. Max(S \cup {m}) \in S \cup {m} /\ \A y \in S \cup {m} : Max(S \cup {m}) >= y
  <2>1. \A y \in S \cup {m} : m >= y
    BY <1>2
  <2> QED BY <2>1, Zenon DEF Max
<1>4. Max(S \cup {m}) >= m /\ Max(S \cup {m}) <= m /\ Max(S \cup {m}) \in Int
  BY <1>2, <1>3
<1> QED BY <1>4

LEMMA MaxOfTwo ==
    ASSUME NEW a \in Int, NEW b \in Int
    PROVE  Max({a, b}) \in {a, b}
<1>1. \E x \in {a, b} : \A y \in {a, b} : x >= y
  OBVIOUS
<1> QED BY <1>1, Zenon DEF Max

LEMMA Typed ==
    ASSUME TypeOK
    PROVE  /\ observer \in Observers /\ incident \in Row /\ events \in Seq(Event)
           /\ Len(events) \in Nat /\ Len(events) <= Limit /\ Limit \in Nat
           /\ DOMAIN events = 1..Len(events)
           /\ \A i \in DOMAIN events : events[i] \in Event
           /\ messages \subseteq Message /\ reviews \in 0..MaxUpheavals
           /\ held \in [Process -> Command] /\ reported \in Status
           /\ clock \in 0..MaxClock /\ setBacks \in 0..MaxUpheavals
           /\ {MaxEvents, MaxCount, MaxClock, MaxUpheavals} \subseteq Nat
           /\ Inherited \in {0, 2}
  BY LedgerAssumption DEF TypeOK, Limit, Inherited

LEMMA RoomFor ==
    ASSUME TypeOK, Room PROVE Len(events) + 1 \in 1..Limit
  BY Typed DEF Room, Limit

LEMMA GenerationLast ==
    ASSUME TypeOK
    PROVE  /\ Generations \subseteq 1..Len(events)
           /\ Generation \in 0..Len(events)
           /\ Generations # {} => Generation \in Generations
           /\ \A g \in Generations : g <= Generation
<1>1. Generations \subseteq 1..Len(events) /\ Len(events) \in Nat
  BY Typed DEF Generations, EventsOf
<1>2. CASE Generations = {}
  BY <1>1, <1>2 DEF Generation
<1>3. CASE Generations # {}
  <2>1. Max(Generations) \in Generations /\ \A g \in Generations : g <= Max(Generations)
    BY <1>1, <1>3, MaxOf
  <2>2. Generation = Max(Generations)
    BY <1>3 DEF Generation
  <2>3. Max(Generations) \in 1..Len(events)
    BY <1>1, <2>1
  <2> QED BY <1>1, <1>3, <2>1, <2>2, <2>3
<1> QED BY <1>2, <1>3

LEMMA ResolutionLast ==
    ASSUME TypeOK
    PROVE  /\ Resolutions \subseteq 1..Len(events)
           /\ \A i \in Resolutions : i > Generation
           /\ Resolutions # {} => /\ Max(Resolutions) \in Resolutions
                                  /\ \A i \in Resolutions : i <= Max(Resolutions)
<1>1. Resolutions \subseteq 1..Len(events) /\ Len(events) \in Nat
  BY Typed DEF Resolutions, EventsOf
<1> QED BY <1>1, MaxOf DEF Resolutions

LEMMA InitInv == Init => IInv
<1> SUFFICES ASSUME Init PROVE IInv
  OBVIOUS
<1> USE DEF Init
<1>1. AbsentRow \in Row
  BY LedgerAssumption DEF AbsentRow, Row, Severity, Never
<1>2. LegacyRow \in Row
  <2>1. 1 \in 0..MaxCount /\ 0 \in Never..MaxClock /\ "resolved" \in {"absent", "open",
          "acknowledged", "resolved"}
    BY LedgerAssumption DEF Never
  <2> QED BY <1>1, <2>1 DEF LegacyRow, Row
<1>3. NoProof \in Proof /\ NoProof.kind = "none" /\ NoProof.transitioned = FALSE
  BY <1>1, LedgerAssumption DEF NoProof, Proof, Limit, Never
<1>4. Idle \in Command /\ Idle.pc = "idle" /\ Idle.evidence.count = 0 /\ Idle.at = Never
  BY <1>1, LedgerAssumption DEF Idle, Command, Limit, Never, AbsentRow
<1>5. /\ [type |-> "opened", at |-> 0, proof |-> NoProof] \in Event
      /\ [type |-> "resolved", at |-> 0, proof |-> NoProof] \in Event
  BY <1>3, LedgerAssumption DEF Event, EventType
<1>6. TypeOK
  <2>1. incident \in Row
    BY <1>1, <1>2
  <2>2. events \in Seq(Event) /\ Len(events) <= Limit
    <3>1. Limit \in Nat /\ 2 <= Limit
      BY LedgerAssumption DEF Limit
    <3> PICK a \in Event : a = [type |-> "opened", at |-> 0, proof |-> NoProof]
      BY <1>5
    <3> PICK b \in Event : b = [type |-> "resolved", at |-> 0, proof |-> NoProof]
      BY <1>5
    <3>2. <<>> \in Seq(Event) /\ Len(<<>>) = 0 /\ <<a, b>> \in Seq(Event)
          /\ Len(<<a, b>>) = 2
      OBVIOUS
    <3>3. events = <<>> \/ events = <<a, b>>
      OBVIOUS
    <3>4. CASE events = <<>>
      BY <3>1, <3>2, <3>4
    <3>5. CASE events = <<a, b>>
      BY <3>1, <3>2, <3>5
    <3> QED BY <3>3, <3>4, <3>5
  <2>3. held \in [Process -> Command]
    BY <1>4
  <2> QED BY <2>1, <2>2, <2>3, LedgerAssumption DEF TypeOK, Status
<1>7. \A p \in Process : held[p].pc = "idle" /\ held[p].evidence.count = 0
                         /\ held[p].at = Never
  BY <1>4
<1>8. CASE incident = AbsentRow /\ events = <<>>
  <2>1. incident.count = 0 /\ incident.state = "absent"
    BY <1>8 DEF AbsentRow
  <2>2. Generations = {} /\ Resolutions = {} /\ DOMAIN events = {}
    BY <1>8 DEF Generations, Resolutions, EventsOf
  <2>3. Structure /\ ClosedWithProof
    BY <1>8, <2>1, <2>2 DEF Structure, ClosedWithProof
  <2>4. Held /\ Timely
    BY <1>7, <2>1, <2>2, Typed, <1>6 DEF Held, Timely, Never
  <2>5. Told
    BY <2>2 DEF Told
  <2> QED BY <1>6, <2>3, <2>4, <2>5 DEF IInv, BaseInv
<1>9. CASE /\ incident = LegacyRow
           /\ events = << [type |-> "opened", at |-> 0, proof |-> NoProof],
                          [type |-> "resolved", at |-> 0, proof |-> NoProof] >>
  <2>1. incident.count = 1 /\ incident.state = "resolved"
    BY <1>9 DEF LegacyRow, AbsentRow
  <2>2. /\ DOMAIN events = {1, 2} /\ events[1].type = "opened" /\ events[2].type = "resolved"
        /\ events[1].at = 0 /\ events[2].at = 0
        /\ events[1].proof.kind = "none" /\ events[2].proof.kind = "none"
        /\ ~events[1].proof.transitioned /\ ~events[2].proof.transitioned
        /\ events # <<>>
    BY <1>3, <1>9
  <2>3. Generations = {1}
    BY <2>2 DEF Generations, EventsOf
  <2>4. Generation = 1
    BY <2>3, <1>6, GenerationLast
  <2>5. Resolutions = {2}
    BY <2>2, <2>4 DEF Resolutions, EventsOf
  <2>6. Structure
    BY <2>1, <2>2, <2>3, <2>5 DEF Structure
  <2>7. ClosedWithProof
    BY <2>2, <2>5, <1>6, ResolutionLast DEF ClosedWithProof
  <2>8. Held /\ Timely
    BY <1>7, <2>1, <2>2, <2>3, Typed, <1>6 DEF Held, Timely, Never
  <2>9. Told
    BY <2>2 DEF Told, Closing, EventsOf
  <2> QED BY <1>6, <2>6, <2>7, <2>8, <2>9 DEF IInv, BaseInv
<1> QED BY <1>8, <1>9

-----------------------------------------------------------------------------
(* One more event.                                                         *)

LEMMA Appended ==
    ASSUME TypeOK, NEW n, n = Len(events), NEW e \in Event, events' = Append(events, e)
    PROVE  /\ n \in Nat /\ Len(events') = n + 1 /\ DOMAIN events' = 1..(n + 1)
           /\ \A i \in 1..n : events'[i] = events[i]
           /\ events'[n + 1] = e /\ events' # <<>> /\ events' \in Seq(Event)
           /\ Generations' = Generations \cup
                               (IF e.type \in {"opened", "reopened"} THEN {n + 1} ELSE {})
           /\ EventsOf({"resolved"})' = EventsOf({"resolved"}) \cup
                                          (IF e.type = "resolved" THEN {n + 1} ELSE {})
<1>1. /\ n \in Nat /\ Len(events') = n + 1 /\ DOMAIN events' = 1..(n + 1)
      /\ \A i \in 1..n : events'[i] = events[i]
      /\ events'[n + 1] = e /\ events' # <<>> /\ events' \in Seq(Event)
  BY Typed
<1>2. DOMAIN events = 1..n
  BY Typed
<1>3. Generations' = Generations \cup
                       (IF e.type \in {"opened", "reopened"} THEN {n + 1} ELSE {})
  BY <1>1, <1>2 DEF Generations, EventsOf
<1>4. EventsOf({"resolved"})' = EventsOf({"resolved"}) \cup
                                  (IF e.type = "resolved" THEN {n + 1} ELSE {})
  BY <1>1, <1>2 DEF EventsOf
<1> QED BY <1>1, <1>3, <1>4

\* An occurrence that opens the incident, or opens it again.
LEMMA Opens ==
    ASSUME TypeOK, NEW n, n = Len(events), NEW e \in Event, events' = Append(events, e),
           e.type \in {"opened", "reopened"}, TypeOK'
    PROVE  /\ Generations' = Generations \cup {n + 1} /\ Generation' = n + 1
           /\ Resolutions' = {}
<1>1. Generations' = Generations \cup {n + 1} /\ n \in Nat /\ Generations \subseteq 1..n
  BY Appended, GenerationLast
<1>2. Generation' = n + 1
  <2>1. Max(Generations \cup {n + 1}) = n + 1
    BY <1>1, MaxAdded
  <2> QED BY <1>1, <2>1 DEF Generation
<1>3. Resolutions' = {}
  <2>1. DOMAIN events' = 1..(n + 1)
    BY Appended
  <2> QED BY <1>1, <1>2, <2>1 DEF Resolutions, EventsOf
<1> QED BY <1>1, <1>2, <1>3

\* Any other event.
LEMMA GoesOn ==
    ASSUME TypeOK, NEW n, n = Len(events), NEW e \in Event, events' = Append(events, e),
           e.type \notin {"opened", "reopened"}, TypeOK'
    PROVE  /\ Generations' = Generations /\ Generation' = Generation
           /\ Generation \in 0..n
           /\ Resolutions' = Resolutions \cup (IF e.type = "resolved" THEN {n + 1} ELSE {})
<1>1. Generations' = Generations
  BY Appended
<1>2. Generation' = Generation
  BY <1>1 DEF Generation
<1>3. Generation \in 0..n /\ n \in Nat
  BY GenerationLast, Appended
<1>4. Resolutions' = {i \in EventsOf({"resolved"})' : i > Generation}
  BY <1>2 DEF Resolutions
<1>5. EventsOf({"resolved"})' = EventsOf({"resolved"}) \cup
                                  (IF e.type = "resolved" THEN {n + 1} ELSE {})
  BY Appended
<1>6. Resolutions' = Resolutions \cup (IF e.type = "resolved" THEN {n + 1} ELSE {})
  BY <1>3, <1>4, <1>5 DEF Resolutions
<1> QED BY <1>1, <1>2, <1>3, <1>6

\* A resolution is the latest one of its generation, and follows all others.
LEMMA Resolves ==
    ASSUME TypeOK, NEW n, n = Len(events), NEW e \in Event, events' = Append(events, e),
           e.type = "resolved", TypeOK'
    PROVE  /\ Resolutions' # {} /\ Max(Resolutions)' = n + 1
           /\ Generation' = Generation /\ Earlier(n + 1)' = Resolutions
           /\ events'[n + 1] = e
           /\ Generation \in DOMAIN events => events'[Generation] = events[Generation]
           /\ Resolutions # {} => events'[Max(Resolutions)] = events[Max(Resolutions)]
<1>1. /\ Resolutions' = Resolutions \cup {n + 1} /\ n \in Nat
      /\ Generation' = Generation /\ Resolutions \subseteq 1..n
      /\ events'[n + 1] = e /\ \A i \in 1..n : events'[i] = events[i]
  BY Appended, GoesOn, ResolutionLast
<1>2. Max(Resolutions') = n + 1
  <2>1. Max(Resolutions \cup {n + 1}) = n + 1
    BY <1>1, MaxAdded
  <2> QED BY <1>1, <2>1
<1>3. Earlier(n + 1)' = Resolutions
  <2>1. Earlier(n + 1)' = {j \in Resolutions' : j < n + 1}
    BY DEF Earlier
  <2>2. \A j \in Resolutions : j < n + 1
    BY <1>1
  <2>3. ~(n + 1 < n + 1)
    BY <1>1
  <2> QED BY <1>1, <2>1, <2>2, <2>3
<1>4. Resolutions # {} => Max(Resolutions) \in 1..n
  BY <1>1, ResolutionLast
<1> QED BY <1>1, <1>2, <1>3, <1>4, Typed

-----------------------------------------------------------------------------
(* Steps that write nothing.                                               *)

LEMMA SameLedger ==
    ASSUME UNCHANGED <<incident, events>>
    PROVE  /\ Generations' = Generations /\ Generation' = Generation
           /\ Resolutions' = Resolutions /\ Classification' = Classification
<1>1. Generations' = Generations
  BY DEF Generations, EventsOf
<1>2. Generation' = Generation
  BY <1>1 DEF Generation
<1>3. Resolutions' = Resolutions
  BY <1>2 DEF Resolutions, EventsOf
<1>4. \A i : Earlier(i)' = Earlier(i)
  BY <1>3 DEF Earlier
<1>5. \A i : ManualValid(i)' = ManualValid(i) /\ ProducerValid(i)' = ProducerValid(i)
  BY <1>2, <1>4 DEF ManualValid, ProducerValid
<1>6. Classification' = Classification
  BY <1>3, <1>5 DEF Classification
<1> QED BY <1>1, <1>2, <1>3, <1>6

LEMMA QuietLedger ==
    ASSUME IInv, UNCHANGED <<incident, events, messages, reported>>,
           setBacks' = 0 => setBacks = 0
    PROVE  (Structure /\ Told /\ ClosedWithProof)'
<1>1. /\ Generations' = Generations /\ Generation' = Generation
      /\ Resolutions' = Resolutions /\ Classification' = Classification
  BY SameLedger
<1>2. Structure'
  BY <1>1 DEF IInv, BaseInv, Structure
<1>3. Told'
  BY <1>1 DEF IInv, BaseInv, Told, Closing, EventsOf
<1>4. ClosedWithProof'
  BY <1>1 DEF IInv, ClosedWithProof
<1> QED BY <1>2, <1>3, <1>4

LEMMA QuietStep ==
    ASSUME IInv, NEW p \in Process, NEW s \in Command, held' = [held EXCEPT ![p] = s],
           UNCHANGED <<Ledger, World>>,
           s.pc \in {"emit", "operate", "recover"} => s.at \in 0..MaxClock,
           s.pc \in {"read", "observed", "operate", "recover"} => s.evidence.state # "absent",
           s.evidence.count <= incident.count,
           setBacks = 0 => /\ s.at <= clock
                           /\ \A g \in Generations :
                                s.pc \in {"operate", "recover"}
                                /\ s.evidence.count = incident.count
                                  => events[g].at <= s.at
    PROVE  IInv'
<1>1. /\ UNCHANGED <<incident, events, messages, reported>>
      /\ UNCHANGED <<observer, reviews, clock, setBacks>>
  BY DEF Ledger, World
<1>2. held' \in [Process -> Command] /\ held'[p] = s
      /\ \A q \in Process \ {p} : held'[q] = held[q]
  BY Typed DEF IInv, BaseInv
<1>3. TypeOK'
  BY <1>1, <1>2 DEF IInv, BaseInv, TypeOK
<1>4. (Structure /\ Told /\ ClosedWithProof)'
  BY <1>1, QuietLedger
<1>5. Held'
  BY <1>1, <1>2 DEF IInv, BaseInv, Held
<1>6. Generations' = Generations
  BY <1>1, SameLedger
<1>7. Timely'
  BY <1>1, <1>2, <1>6 DEF IInv, BaseInv, Timely
<1> QED BY <1>3, <1>4, <1>5, <1>7 DEF IInv, BaseInv

LEMMA IdleTyped ==
    /\ Idle \in Command /\ Idle.pc = "idle" /\ Idle.evidence.count = 0 /\ Idle.at = Never
    /\ AbsentRow \in Row /\ NoProof \in Proof
<1>1. AbsentRow \in Row
  BY LedgerAssumption DEF AbsentRow, Row, Severity, Never
<1>2. NoProof \in Proof
  BY <1>1, LedgerAssumption DEF NoProof, Proof, Limit, Never
<1>3. Idle \in Command /\ Idle.pc = "idle" /\ Idle.evidence.count = 0 /\ Idle.at = Never
  BY <1>1, LedgerAssumption DEF Idle, Command, Limit, Never, AbsentRow
<1> QED BY <1>1, <1>2, <1>3

LEMMA CountTyped ==
    ASSUME TypeOK
    PROVE  /\ incident.count \in 0..MaxCount /\ clock \in Nat
           /\ \A p \in Process : held[p] \in Command /\ held[p].evidence \in Row
                                 /\ held[p].evidence.count \in 0..MaxCount
                                 /\ held[p].at \in Never..MaxClock
<1>1. \A r \in Row : r.count \in 0..MaxCount
  BY DEF Row
<1>2. \A p \in Process : held[p] \in Command /\ held[p].evidence \in Row
                         /\ held[p].at \in Never..MaxClock
  BY Typed DEF Command
<1>3. clock \in Nat
  BY Typed
<1> QED BY <1>1, <1>2, <1>3, Typed

LEMMA CallEmitKeeps ==
    ASSUME IInv, NEW p \in Process, CallEmit(p)
    PROVE  IInv'
<1> PICK s : s = [Idle EXCEPT !.pc = "emit", !.at = clock]
  OBVIOUS
<1>1. s \in Command /\ s.pc = "emit" /\ s.at = clock /\ s.evidence.count = 0
  <2>1. clock \in Never..MaxClock
    BY Typed DEF IInv, BaseInv, Never
  <2> QED BY <2>1, IdleTyped DEF Command
<1>2. 0 <= incident.count /\ clock \in 0..MaxClock /\ clock <= clock
  BY CountTyped, Typed DEF IInv, BaseInv
<1> QED BY <1>1, <1>2, QuietStep DEF CallEmit, Set

LEMMA ObserveSchedulerKeeps ==
    ASSUME IInv, NEW p \in Process, ObserveScheduler(p)
    PROVE  IInv'
<1> PICK s : s = [Idle EXCEPT !.pc = "looked", !.seen = incident.count]
  OBVIOUS
<1>1. s \in Command /\ s.pc = "looked" /\ s.at = Never /\ s.evidence.count = 0
  BY IdleTyped, CountTyped DEF Command, IInv, BaseInv
<1>2. 0 <= incident.count /\ Never <= clock
  BY CountTyped DEF IInv, BaseInv, Never
<1> QED BY <1>1, <1>2, QuietStep DEF ObserveScheduler, Set

LEMMA ReadKeeps ==
    ASSUME IInv, NEW p \in Process, Read(p)
    PROVE  IInv'
<1> PICK pc \in {"observed", "read"}, seen \in 0..MaxCount :
         held' = [held EXCEPT ![p] =
                    [pc |-> pc, evidence |-> incident, generation |-> Generation,
                     review |-> reviews, at |-> Never, seen |-> seen]]
  <2>1. held[p].seen \in 0..MaxCount /\ incident.count \in 0..MaxCount
    BY CountTyped DEF Command, IInv, BaseInv
  <2> QED BY <2>1 DEF Read, Set
<1> PICK s : s = [pc |-> pc, evidence |-> incident, generation |-> Generation,
                  review |-> reviews, at |-> Never, seen |-> seen]
  OBVIOUS
<1>1. Generation \in 0..Limit
  BY GenerationLast, Typed DEF IInv, BaseInv
<1>2. Never \in Never..MaxClock /\ incident.count <= incident.count /\ Never <= clock
  BY LedgerAssumption, CountTyped DEF Never, IInv, BaseInv
<1>3. s \in Command /\ s.pc = pc /\ s.at = Never /\ s.evidence = incident
  BY <1>1, <1>2, Typed DEF Command, IInv, BaseInv
<1> QED BY <1>2, <1>3, QuietStep DEF Read

\* The time is taken after the row was read.
LEMMA CallKeeps ==
    ASSUME IInv, NEW p \in Process, NEW pc \in {"operate", "recover"},
           held[p].pc \in {"read", "observed"},
           Set(p, [held[p] EXCEPT !.pc = pc, !.at = clock]),
           UNCHANGED <<Ledger, World>>
    PROVE  IInv'
<1> PICK s : s = [held[p] EXCEPT !.pc = pc, !.at = clock]
  OBVIOUS
<1>1. held[p] \in Command /\ clock \in 0..MaxClock /\ clock \in Never..MaxClock
  BY CountTyped, Typed DEF IInv, BaseInv, Never
<1>2. s \in Command /\ s.pc = pc /\ s.at = clock /\ s.evidence = held[p].evidence
  BY <1>1 DEF Command
<1>3. setBacks = 0 => \A g \in Generations : events[g].at <= clock
  BY DEF IInv, BaseInv, Timely, Generations, EventsOf
<1>4. s.evidence.count <= incident.count /\ clock <= clock
      /\ s.evidence.state # "absent"
  BY <1>1, <1>2 DEF IInv, BaseInv, Held
<1> QED BY <1>1, <1>2, <1>3, <1>4, QuietStep DEF Set

LEMMA CallOperatorKeeps ==
    ASSUME IInv, NEW p \in Process, CallOperator(p)
    PROVE  IInv'
  BY CallKeeps DEF CallOperator

LEMMA CallProducerKeeps ==
    ASSUME IInv, NEW p \in Process, CallProducer(p)
    PROVE  IInv'
  BY CallKeeps DEF CallProducer

LEMMA AbandonKeeps ==
    ASSUME IInv, NEW p \in Process, Abandon(p)
    PROVE  IInv'
<1>1. 0 <= incident.count /\ Never <= clock
  BY CountTyped DEF IInv, BaseInv, Never
<1> QED BY <1>1, IdleTyped, QuietStep DEF Abandon, Set

LEMMA WorldKeeps ==
    ASSUME IInv, Review \/ Tick \/ SetBack
    PROVE  IInv'
<1>1. /\ UNCHANGED <<observer, incident, events, messages, reported, held>>
      /\ setBacks' = 0 => setBacks = 0 /\ clock <= clock'
      /\ clock' \in 0..MaxClock /\ setBacks' \in 0..MaxUpheavals
      /\ reviews' \in 0..MaxUpheavals
  <2>1. CASE Review
    BY <2>1, Typed DEF Review, Ledger, IInv, BaseInv
  <2>2. CASE Tick
    BY <2>2, Typed DEF Tick, Ledger, IInv, BaseInv
  <2>3. CASE SetBack
    BY <2>3, Typed DEF SetBack, Ledger, IInv, BaseInv
  <2> QED BY <2>1, <2>2, <2>3
<1>2. TypeOK'
  BY <1>1 DEF IInv, BaseInv, TypeOK
<1>3. (Structure /\ Told /\ ClosedWithProof)'
  BY <1>1, QuietLedger
<1>4. Generations' = Generations
  BY <1>1, SameLedger
<1>5. Held'
  BY <1>1 DEF IInv, BaseInv, Held
<1>6. Timely'
  <2> SUFFICES ASSUME setBacks' = 0 PROVE Timely'
    BY DEF Timely
  <2>1. /\ clock <= clock' /\ clock \in Int /\ clock' \in Int /\ setBacks = 0
        /\ \A i \in DOMAIN events : events[i].at \in Int
        /\ \A p \in Process : held[p].at \in Int
    BY <1>1, Typed, CountTyped DEF IInv, BaseInv, Event, Never
  <2>2. \A i \in DOMAIN events : events[i].at <= clock'
    BY <2>1 DEF IInv, BaseInv, Timely
  <2>3. \A p \in Process : held[p].at <= clock'
    BY <2>1 DEF IInv, BaseInv, Timely
  <2> QED BY <1>1, <1>4, <2>1, <2>2, <2>3 DEF IInv, BaseInv, Timely
<1> QED BY <1>2, <1>3, <1>5, <1>6 DEF IInv, BaseInv

-----------------------------------------------------------------------------
(* Transactions: one more event, and the command is over.                  *)

LEMMA WriteStep ==
    ASSUME IInv, NEW p \in Process, NEW n, n = Len(events), NEW e \in Event,
           events' = Append(events, e), Set(p, Idle), UNCHANGED World, Room,
           e.at = held[p].at, incident' \in Row, incident'.count >= incident.count,
           e.type \in {"opened", "reopened"} => incident'.count > incident.count,
           messages' \subseteq Message, reported' \in Status
    PROVE  TypeOK' /\ Held' /\ Timely'
<1>1. UNCHANGED <<observer, reviews, clock, setBacks>>
  BY DEF World
<1>2. held' \in [Process -> Command] /\ held'[p] = Idle
      /\ \A q \in Process \ {p} : held'[q] = held[q]
  BY IdleTyped, Typed DEF IInv, BaseInv, Set
<1>3. /\ n \in Nat /\ Len(events') = n + 1 /\ DOMAIN events' = 1..(n + 1)
      /\ \A i \in 1..n : events'[i] = events[i]
      /\ events'[n + 1] = e /\ events' \in Seq(Event)
      /\ Generations' = Generations \cup
                          (IF e.type \in {"opened", "reopened"} THEN {n + 1} ELSE {})
  BY Appended DEF IInv, BaseInv
<1>4. n + 1 <= Limit
  BY RoomFor DEF IInv, BaseInv
<1>5. TypeOK'
  <2>1. Len(events)' <= Limit
    BY <1>3, <1>4
  <2> QED BY <1>1, <1>2, <1>3, <2>1 DEF IInv, BaseInv, TypeOK
<1>6. incident.count \in Int /\ incident'.count \in Int /\ 0 <= incident.count
      /\ \A q \in Process : held[q].evidence.count \in Int
  BY CountTyped DEF IInv, BaseInv, Row
<1>7. Held'
  <2> SUFFICES ASSUME NEW q \in Process
               PROVE  /\ held'[q].pc \in {"emit", "operate", "recover"} =>
                            held'[q].at \in 0..MaxClock
                      /\ held'[q].pc \in {"read", "observed", "operate", "recover"} =>
                            held'[q].evidence.state # "absent"
                      /\ held'[q].evidence.count <= incident'.count
    BY DEF Held
  <2>1. CASE q = p
    <3>1. 0 <= incident'.count
      BY <1>6
    <3> QED BY <1>2, <2>1, <3>1, IdleTyped
  <2>2. CASE q # p
    <3>1. held'[q] = held[q]
      BY <1>2, <2>2
    <3>2. held[q].evidence.count <= incident.count
      BY DEF IInv, BaseInv, Held
    <3>3. held[q].evidence.count <= incident'.count
      BY <1>6, <3>2
    <3> QED BY <3>1, <3>3 DEF IInv, BaseInv, Held
  <2> QED BY <2>1, <2>2
<1>8. Timely'
  <2> SUFFICES ASSUME setBacks = 0 PROVE Timely'
    BY <1>1 DEF Timely
  <2>1. DOMAIN events = 1..n
    BY Typed DEF IInv, BaseInv
  <2>2. \A i \in DOMAIN events' : events'[i].at <= clock
    <3> SUFFICES ASSUME NEW i \in 1..(n + 1) PROVE events'[i].at <= clock
      BY <1>3
    <3>1. CASE i \in 1..n
      BY <1>3, <2>1, <3>1 DEF IInv, BaseInv, Timely
    <3>2. CASE i = n + 1
      BY <1>3, <3>2 DEF IInv, BaseInv, Timely
    <3> QED BY <1>3, <3>1, <3>2
  <2>3. Never <= clock
    BY CountTyped DEF IInv, BaseInv, Never
  <2>4. \A q \in Process : held'[q].at <= clock
    BY <1>2, <2>3, IdleTyped DEF IInv, BaseInv, Timely
  <2>5. ASSUME NEW q \in Process, NEW g \in Generations',
               held'[q].pc \in {"operate", "recover"},
               held'[q].evidence.count = incident'.count
        PROVE  events'[g].at <= held'[q].at
    <3>1. q # p /\ held'[q] = held[q]
      BY <1>2, <2>5, IdleTyped
    <3>2. held[q].evidence.count <= incident.count
      BY DEF IInv, BaseInv, Held
    <3>3. incident'.count = incident.count /\ held[q].evidence.count = incident.count
      BY <1>6, <2>5, <3>1, <3>2
    <3>4. e.type \notin {"opened", "reopened"}
      BY <1>6, <3>3
    <3>5. g \in Generations
      BY <1>3, <3>4
    <3>6. g \in 1..n
      BY <3>5, GenerationLast DEF IInv, BaseInv
    <3>7. events[g].at <= held[q].at
      BY <2>5, <3>1, <3>3, <3>5 DEF IInv, BaseInv, Timely
    <3> QED BY <1>3, <3>1, <3>6, <3>7
  <2> QED BY <1>1, <2>2, <2>4, <2>5 DEF Timely
<1> QED BY <1>5, <1>7, <1>8

\* The closings of before are the closings of now, but for the last event.
LEMMA ClosingAppended ==
    ASSUME TypeOK, NEW n, n = Len(events), NEW e \in Event, events' = Append(events, e)
    PROVE  /\ \A i \in 1..n : Closing(i)' <=> Closing(i)
           /\ Closing(n + 1)' <=> (e.type = "resolved" /\ e.proof.transitioned)
           /\ \A i : Closing(i)' => i \in 1..(n + 1)
           /\ \A i : Closing(i) => i \in 1..n
<1>1. /\ n \in Nat /\ DOMAIN events' = 1..(n + 1) /\ DOMAIN events = 1..n
      /\ \A i \in 1..n : events'[i] = events[i]
      /\ events'[n + 1] = e
  BY Appended, Typed
<1>2. n + 1 \in 1..(n + 1) /\ \A i \in 1..n : i \in 1..(n + 1)
  BY <1>1
<1> QED BY <1>1, <1>2 DEF Closing, EventsOf

\* An event that closes nothing is announced by no message of recovery.
LEMMA ToldQuietly ==
    ASSUME TypeOK, Told, NEW n, n = Len(events), NEW e \in Event,
           events' = Append(events, e),
           e.type # "resolved" \/ ~e.proof.transitioned,
           messages \subseteq messages',
           \A m \in messages' : m.kind = "resolved" => m \in messages,
           incident'.notify = incident.notify \/ events = <<>>
    PROVE  Told'
<1>1. /\ \A i \in 1..n : Closing(i)' <=> Closing(i)
      /\ ~Closing(n + 1)' /\ \A i : Closing(i)' => i \in 1..(n + 1)
      /\ \A i : Closing(i) => i \in 1..n
  BY ClosingAppended
<1>2. n \in Nat /\ DOMAIN events = 1..n /\ DOMAIN events' = 1..(n + 1)
      /\ Generations \subseteq Generations'
  BY Appended, Typed
<1>3. \A i : Closing(i)' => i \in 1..n /\ Closing(i)
  <2> SUFFICES ASSUME NEW i, Closing(i)' PROVE i \in 1..n /\ Closing(i)
    OBVIOUS
  <2>1. i \in 1..(n + 1) /\ i # n + 1
    BY <1>1
  <2>2. i \in 1..n
    BY <1>2, <2>1
  <2> QED BY <1>1, <2>2
<1>4. \A i : Closing(i) => incident'.notify = incident.notify
  BY <1>1, <1>2
<1>5. \A m \in messages' : m.kind = "resolved" => incident'.notify /\ Closing(m.event)'
  BY <1>1, <1>4 DEF Told
<1>6. \A i \in DOMAIN events' :
         Closing(i)' /\ incident'.notify => [event |-> i, kind |-> "resolved"] \in messages'
  BY <1>2, <1>3, <1>4 DEF Told
<1>7. \A i, j \in DOMAIN events' :
         Closing(i)' /\ Closing(j)' /\ i < j => \E h \in Generations' : i < h /\ h < j
  BY <1>2, <1>3 DEF Told
<1> QED BY <1>5, <1>6, <1>7 DEF Told

\* The event that closes a generation is the first resolution of it.
LEMMA ToldOnce ==
    ASSUME TypeOK, Told, NEW n, n = Len(events), NEW e \in Event,
           events' = Append(events, e),
           e.type = "resolved", e.proof.transitioned, Resolutions = {},
           incident'.notify = incident.notify,
           messages' = messages \cup
              (IF incident.notify THEN {[event |-> n + 1, kind |-> "resolved"]} ELSE {})
    PROVE  Told'
<1>1. /\ \A i \in 1..n : Closing(i)' <=> Closing(i)
      /\ Closing(n + 1)' /\ \A i : Closing(i)' => i \in 1..(n + 1)
      /\ \A i : Closing(i) => i \in 1..n
  BY ClosingAppended
<1>2. n \in Nat /\ DOMAIN events = 1..n /\ DOMAIN events' = 1..(n + 1)
      /\ Generations \subseteq Generations'
  BY Appended, Typed
<1>3. \A m \in messages' : m.kind = "resolved" => incident'.notify /\ Closing(m.event)'
  <2> SUFFICES ASSUME NEW m \in messages', m.kind = "resolved"
               PROVE  incident'.notify /\ Closing(m.event)'
    OBVIOUS
  <2>1. CASE m \in messages
    BY <1>1, <2>1 DEF Told
  <2>2. CASE m \notin messages
    <3>1. incident.notify /\ m = [event |-> n + 1, kind |-> "resolved"]
      BY <2>2
    <3> QED BY <1>1, <3>1
  <2> QED BY <2>1, <2>2
<1>4. \A i \in DOMAIN events' :
         Closing(i)' /\ incident'.notify => [event |-> i, kind |-> "resolved"] \in messages'
  <2> SUFFICES ASSUME NEW i \in 1..(n + 1), Closing(i)', incident.notify
               PROVE  [event |-> i, kind |-> "resolved"] \in messages'
    BY <1>2
  <2>1. CASE i = n + 1
    BY <2>1
  <2>2. CASE i # n + 1
    <3>1. i \in 1..n
      BY <1>2, <2>2
    <3> QED BY <1>1, <1>2, <3>1 DEF Told
  <2> QED BY <2>1, <2>2
<1>5. ASSUME NEW i \in 1..n, Closing(i)
      PROVE  \E h \in Generations' : i < h /\ h < n + 1
  <2>1. i \in DOMAIN events /\ events[i].type = "resolved" /\ i \in EventsOf({"resolved"})
    BY <1>5 DEF Closing, EventsOf
  <2>2. ~(i > Generation)
    BY <2>1 DEF Resolutions
  <2>3. Generation \in 0..n /\ i <= Generation
    BY <1>2, <2>2, GenerationLast
  <2>4. Generations # {}
    BY <1>2, <2>3 DEF Generation
  <2>5. Generation \in Generations
    BY <2>4, GenerationLast
  <2>6. events[Generation].type \in {"opened", "reopened"}
    BY <2>5 DEF Generations, EventsOf
  <2>7. Generation # i
    BY <2>1, <2>6
  <2>8. i < Generation /\ Generation < n + 1
    BY <1>2, <2>3, <2>7
  <2> QED BY <1>2, <2>5, <2>8
<1>6. \A i, j \in DOMAIN events' :
         Closing(i)' /\ Closing(j)' /\ i < j => \E h \in Generations' : i < h /\ h < j
  <2> SUFFICES ASSUME NEW i \in 1..(n + 1), NEW j \in 1..(n + 1),
                      Closing(i)', Closing(j)', i < j
               PROVE  \E h \in Generations' : i < h /\ h < j
    BY <1>2
  <2>1. i \in 1..n /\ Closing(i)
    <3>1. i \in 1..n
      BY <1>2
    <3> QED BY <1>1, <3>1
  <2>2. CASE j = n + 1
    BY <1>5, <2>1, <2>2
  <2>3. CASE j # n + 1
    <3>1. j \in 1..n
      BY <1>2, <2>3
    <3> QED BY <1>1, <1>2, <2>1, <3>1 DEF Told
  <2> QED BY <2>2, <2>3
<1> QED BY <1>3, <1>4, <1>6 DEF Told

\* A new row says that the incident is not closed, and no resolution does.
LEMMA Unresolved ==
    ASSUME IInv, NEW n, n = Len(events), NEW e \in Event, events' = Append(events, e),
           TypeOK', e.type # "resolved", Resolutions = {} \/ e.type \in {"opened", "reopened"},
           incident.state = "absent" => e.type = "opened",
           incident'.state \in {"open", "acknowledged"}
    PROVE  Structure' /\ ClosedWithProof'
<1>1. Resolutions' = {}
  BY Opens, GoesOn DEF IInv, BaseInv
<1>2. events' # <<>> /\ 1 \in Generations'
  <2>1. /\ n \in Nat /\ events' # <<>> /\ Generations \subseteq Generations'
        /\ e.type = "opened" => n + 1 \in Generations'
    BY Appended DEF IInv, BaseInv
  <2>2. CASE events = <<>>
    <3>1. n = 0 /\ e.type = "opened"
      BY <2>2 DEF IInv, BaseInv, Structure
    <3> QED BY <2>1, <3>1
  <2>3. CASE events # <<>>
    BY <2>1, <2>3 DEF IInv, BaseInv, Structure
  <2> QED BY <2>1, <2>2, <2>3
<1>3. Structure'
  BY <1>1, <1>2 DEF Structure
<1>4. ClosedWithProof'
  BY <1>1 DEF ClosedWithProof
<1> QED BY <1>3, <1>4

LEMMA EmitKeeps ==
    ASSUME IInv, NEW p \in Process, Emit(p)
    PROVE  IInv'
<1> PICK n : n = Len(events)
  OBVIOUS
<1> PICK e : e = [type |-> CASE incident.state = "absent" -> "opened"
                             [] incident.state = "open" -> "repeated"
                             [] OTHER -> "reopened", at |-> held[p].at, proof |-> NoProof]
  OBVIOUS
<1>1. /\ events' = Append(events, e) /\ Set(p, Idle) /\ UNCHANGED World /\ Room
      /\ UNCHANGED reported /\ held[p].pc = "emit" /\ incident.count < MaxCount
  BY DEF Emit, Insert
<1>2. PICK severity \in Severity, notify \in BOOLEAN :
        /\ incident.state # "absent" => notify = incident.notify
        /\ incident' = [state |-> "open", severity |-> Max({incident.severity, severity}),
                        count |-> incident.count + 1, last |-> held[p].at,
                        acknowledged |-> Never, resolved |-> Never, notify |-> notify]
        /\ Enqueue(EmitMessage(severity), notify)
  BY DEF Emit
<1>3. held[p].at \in 0..MaxClock /\ held[p].at \in Never..MaxClock
  BY <1>1, CountTyped DEF IInv, BaseInv, Held
<1>4. incident \in Row /\ incident.count \in 0..MaxCount /\ incident.severity \in Severity
      /\ incident.state \in {"absent", "open", "acknowledged", "resolved"}
  BY Typed DEF IInv, BaseInv, Row
<1>5. e.type \in {"opened", "repeated", "reopened"} /\ e.at = held[p].at
      /\ (incident.state = "absent" => e.type = "opened")
      /\ (e.type = "repeated" => incident.state = "open")
  BY <1>4
<1>6. e \in Event
  <2>1. e.type \in EventType
    BY <1>5 DEF EventType
  <2> QED BY <1>3, <2>1, IdleTyped DEF Event
<1>7. incident' \in Row /\ incident'.count = incident.count + 1
      /\ incident'.state = "open" /\ incident'.notify = notify
  <2>1. Max({incident.severity, severity}) \in Severity
    <3>1. incident.severity \in Int /\ severity \in Int
      BY <1>4 DEF Severity
    <3> QED BY <1>4, <3>1, MaxOfTwo
  <2>2. incident.count + 1 \in 0..MaxCount /\ Never \in Never..MaxClock
    BY <1>1, <1>4, LedgerAssumption DEF Never
  <2> QED BY <1>2, <1>3, <2>1, <2>2 DEF Row
<1>8. n + 1 \in 1..Limit
  BY <1>1, RoomFor DEF IInv, BaseInv
<1>9. /\ messages \subseteq messages' /\ messages' \subseteq Message
      /\ \A m \in messages' : m.kind = "resolved" => m \in messages
  <2>1. EmitMessage(severity) \subseteq {"opened", "reopened", "escalated"}
    BY <1>4 DEF EmitMessage
  <2>2. PICK K \in SUBSET {"opened", "reopened", "escalated"} :
          messages' = messages \cup {[event |-> n + 1, kind |-> k] : k \in K}
    BY <1>2, <2>1 DEF Enqueue
  <2>3. \A m \in {[event |-> n + 1, kind |-> k] : k \in K} :
           m \in Message /\ m.kind # "resolved"
    BY <1>8, <2>2 DEF Message
  <2> QED BY <2>2, <2>3, Typed DEF IInv, BaseInv
<1>10. TypeOK' /\ Held' /\ Timely'
  <2>1. reported' \in Status
    BY <1>1, Typed DEF IInv, BaseInv
  <2>2. incident'.count > incident.count /\ incident'.count >= incident.count
    BY <1>4, <1>7
  <2> QED BY <1>1, <1>5, <1>6, <1>7, <1>9, <2>1, <2>2, WriteStep
<1>11. Resolutions = {} \/ e.type \in {"opened", "reopened"}
  BY <1>5 DEF IInv, BaseInv, Structure
<1>12. Structure' /\ ClosedWithProof'
  BY <1>1, <1>5, <1>6, <1>7, <1>10, <1>11, Unresolved
<1>13. incident'.notify = incident.notify \/ events = <<>>
  BY <1>2, <1>7 DEF IInv, BaseInv, Structure
<1>14. Told'
  BY <1>1, <1>5, <1>6, <1>9, <1>13, ToldQuietly DEF IInv, BaseInv
<1> QED BY <1>10, <1>12, <1>14 DEF IInv, BaseInv

LEMMA AcknowledgeKeeps ==
    ASSUME IInv, NEW p \in Process, Acknowledge(p)
    PROVE  IInv'
<1> PICK n : n = Len(events)
  OBVIOUS
<1>1. /\ Set(p, Idle) /\ UNCHANGED World /\ Room /\ UNCHANGED <<messages, reported>>
      /\ held[p].pc = "operate" /\ incident.state = "open"
      /\ incident' = [incident EXCEPT !.state = "acknowledged", !.acknowledged = held[p].at]
  BY DEF Acknowledge
<1>2. held[p].at \in 0..MaxClock /\ held[p].at \in Never..MaxClock
      /\ held[p].evidence \in Row /\ incident \in Row
  BY <1>1, CountTyped, Typed DEF IInv, BaseInv, Held
<1>3. incident' \in Row /\ incident'.count = incident.count
      /\ incident'.state = "acknowledged" /\ incident'.notify = incident.notify
  BY <1>1, <1>2 DEF Row
<1> PICK proof : proof = [NoProof EXCEPT !.kind = "manual", !.expected = held[p].evidence,
                                         !.resulting = incident']
  OBVIOUS
<1>4. proof \in Proof
  <2>1. "manual" \in {"none", "manual", "producer"}
    OBVIOUS
  <2> QED BY <1>2, <1>3, <2>1, IdleTyped DEF Proof
<1> PICK e : e = [type |-> "acknowledged", at |-> held[p].at, proof |-> proof]
  OBVIOUS
<1>5. events' = Append(events, e) /\ e.type = "acknowledged" /\ e.at = held[p].at
  BY DEF Acknowledge, Insert
<1>6. e \in Event
  BY <1>2, <1>4 DEF Event, EventType
<1>7. TypeOK' /\ Held' /\ Timely'
  <2>1. reported' \in Status /\ messages' \subseteq Message
    BY <1>1, Typed DEF IInv, BaseInv
  <2>2. incident'.count >= incident.count
    BY <1>3, CountTyped DEF IInv, BaseInv
  <2> QED BY <1>1, <1>3, <1>5, <1>6, <2>1, <2>2, WriteStep
<1>8. Resolutions = {}
  BY <1>1 DEF IInv, BaseInv, Structure
<1>9. Structure' /\ ClosedWithProof'
  BY <1>1, <1>3, <1>5, <1>6, <1>7, <1>8, Unresolved
<1>10. Told'
  <2>1. messages' = messages
    BY <1>1
  <2> QED BY <1>3, <1>5, <1>6, <2>1, ToldQuietly DEF IInv, BaseInv
<1> QED BY <1>7, <1>9, <1>10 DEF IInv, BaseInv

\* The latest resolution says how the incident was closed.
LEMMA Classified ==
    ASSUME TypeOK, NEW n, n = Len(events), NEW e \in Event, events' = Append(events, e),
           e.type = "resolved", TypeOK', incident'.state = "resolved"
    PROVE  /\ e.proof.kind = "manual" =>
                Classification' = IF ManualValid(n + 1)' THEN "manual" ELSE "invalid"
           /\ e.proof.kind = "producer" =>
                Classification' = IF ProducerValid(n + 1)' THEN "producer_verified_recovery"
                                  ELSE "invalid"
<1>1. Resolutions' # {} /\ Max(Resolutions)' = n + 1 /\ events'[n + 1] = e
  BY Resolves
<1> QED BY <1>1 DEF Classification

LEMMA ResolvedStructure ==
    ASSUME IInv, NEW n, n = Len(events), NEW e \in Event, events' = Append(events, e),
           e.type = "resolved", TypeOK', incident.state # "absent",
           incident'.state = "resolved"
    PROVE  Structure'
<1>1. Resolutions' # {} /\ events' # <<>> /\ Generations \subseteq Generations'
  BY Resolves, Appended DEF IInv, BaseInv
<1> QED BY <1>1 DEF IInv, BaseInv, Structure

LEMMA GenerationKnown ==
    ASSUME IInv, incident.state # "absent"
    PROVE  Generation \in Generations /\ Generation \in DOMAIN events
<1>1. Generations # {}
  BY DEF IInv, BaseInv, Structure
<1> QED BY <1>1, GenerationLast, Typed DEF IInv, BaseInv

\* The messages of a resolution that announces itself or does not.
LEMMA Announces ==
    ASSUME TypeOK, Room, NEW n, n = Len(events), NEW b \in BOOLEAN, Enqueue({"resolved"}, b)
    PROVE  /\ messages' = messages \cup
                            (IF b THEN {[event |-> n + 1, kind |-> "resolved"]} ELSE {})
           /\ messages' \subseteq Message
<1>1. messages' = messages \cup
                    (IF b THEN {[event |-> n + 1, kind |-> "resolved"]} ELSE {})
  BY DEF Enqueue
<1>2. [event |-> n + 1, kind |-> "resolved"] \in Message
  BY RoomFor DEF Message
<1> QED BY <1>1, <1>2, Typed

LEMMA ResolveKeeps ==
    ASSUME IInv, NEW p \in Process, Resolve(p)
    PROVE  IInv'
<1> PICK n : n = Len(events)
  OBVIOUS
<1>1. /\ Set(p, Idle) /\ UNCHANGED World /\ Room /\ reported' = "manual"
      /\ held[p].pc = "operate" /\ incident.state \in {"open", "acknowledged"}
      /\ held[p].evidence = incident /\ Enqueue({"resolved"}, incident.notify)
      /\ incident' = [incident EXCEPT !.state = "resolved", !.resolved = held[p].at]
  BY DEF Resolve, Reviewed
<1>2. held[p].at \in 0..MaxClock /\ held[p].at \in Never..MaxClock
      /\ incident \in Row /\ incident.notify \in BOOLEAN
  BY <1>1, CountTyped, Typed DEF IInv, BaseInv, Held, Row
<1>3. incident' \in Row /\ incident'.count = incident.count
      /\ incident'.state = "resolved" /\ incident'.notify = incident.notify
  BY <1>1, <1>2 DEF Row
<1> PICK proof : proof = [NoProof EXCEPT !.kind = "manual", !.expected = held[p].evidence,
                                         !.resulting = incident', !.transitioned = TRUE]
  OBVIOUS
<1>4. proof \in Proof /\ proof.kind = "manual" /\ proof.resulting = incident'
      /\ proof.transitioned = TRUE
  <2>1. "manual" \in {"none", "manual", "producer"}
    OBVIOUS
  <2> QED BY <1>1, <1>2, <1>3, <2>1, IdleTyped DEF Proof
<1> PICK e : e = [type |-> "resolved", at |-> held[p].at, proof |-> proof]
  OBVIOUS
<1>5. events' = Append(events, e) /\ e.type = "resolved" /\ e.at = held[p].at
      /\ e.proof = proof
  BY DEF Resolve, Insert
<1>6. e \in Event
  BY <1>2, <1>4 DEF Event, EventType
<1>7. /\ messages' = messages \cup (IF incident.notify
                                    THEN {[event |-> n + 1, kind |-> "resolved"]} ELSE {})
      /\ messages' \subseteq Message
  BY <1>1, <1>2, Announces DEF IInv, BaseInv
<1>8. TypeOK' /\ Held' /\ Timely'
  <2>1. reported' \in Status
    BY <1>1 DEF Status
  <2>2. incident'.count >= incident.count
    BY <1>3, CountTyped DEF IInv, BaseInv
  <2> QED BY <1>1, <1>3, <1>5, <1>6, <1>7, <2>1, <2>2, WriteStep
<1>9. Structure'
  BY <1>1, <1>3, <1>5, <1>6, <1>8, ResolvedStructure
<1>10. Resolutions = {}
  BY <1>1 DEF IInv, BaseInv, Structure
<1>11. Told'
  BY <1>3, <1>4, <1>5, <1>6, <1>7, <1>10, ToldOnce DEF IInv, BaseInv
<1>12. ClosedWithProof'
  <2> SUFFICES ASSUME setBacks' = 0 PROVE Classification' = "manual"
    BY <1>1, <1>3 DEF ClosedWithProof
  <2>1. Generation \in Generations /\ Generation \in DOMAIN events
    BY <1>1, GenerationKnown
  <2>2. events[Generation].at <= held[p].at
    BY <1>1, <2>1 DEF IInv, BaseInv, Timely, World
  <2>3. /\ Generation' = Generation /\ Earlier(n + 1)' = {} /\ events'[n + 1] = e
        /\ events'[Generation] = events[Generation]
    BY <1>5, <1>6, <1>8, <1>10, <2>1, Resolves DEF IInv, BaseInv
  <2>4. events[Generation].at \in Int /\ held[p].at \in Int
    BY <1>2, <2>1, Typed DEF IInv, BaseInv, Event
  <2>5. ManualValid(n + 1)'
    <3>1. events'[n + 1].at >= events'[Generation'].at
      BY <1>5, <2>2, <2>3, <2>4
    <3>2. /\ events'[n + 1].proof.resulting = incident'
          /\ events'[n + 1].proof.transitioned = (Earlier(n + 1)' = {})
      <4>1. events'[n + 1].proof = proof /\ Earlier(n + 1)' = {}
        BY <1>5, <2>3
      <4> QED BY <1>4, <4>1, Zenon
    <3> QED BY <2>3, <3>1, <3>2 DEF ManualValid
  <2> QED BY <1>3, <1>4, <1>5, <1>6, <1>8, <2>5, Classified DEF IInv, BaseInv
<1> QED BY <1>8, <1>9, <1>11, <1>12 DEF IInv, BaseInv

LEMMA AttestKeeps ==
    ASSUME IInv, NEW p \in Process, Attest(p)
    PROVE  IInv'
<1> PICK n : n = Len(events)
  OBVIOUS
<1>1. /\ Set(p, Idle) /\ UNCHANGED World /\ Room /\ reported' = "manual"
      /\ held[p].pc = "operate" /\ incident.state = "resolved"
      /\ UNCHANGED <<incident, messages>> /\ Classification' = "manual"
  BY DEF Attest
<1>2. held[p].at \in 0..MaxClock /\ held[p].evidence \in Row /\ incident \in Row
  BY <1>1, CountTyped, Typed DEF IInv, BaseInv, Held
<1> PICK proof : proof = [NoProof EXCEPT !.kind = "manual", !.expected = held[p].evidence,
                                         !.resulting = incident]
  OBVIOUS
<1>3. proof \in Proof /\ proof.transitioned = FALSE
  <2>1. "manual" \in {"none", "manual", "producer"} /\ NoProof.transitioned = FALSE
    BY DEF NoProof
  <2> QED BY <1>2, <2>1, IdleTyped DEF Proof
<1> PICK e : e = [type |-> "resolved", at |-> held[p].at, proof |-> proof]
  OBVIOUS
<1>4. events' = Append(events, e) /\ e.type = "resolved" /\ e.at = held[p].at
      /\ e.proof = proof
  BY DEF Attest, Insert
<1>5. e \in Event
  BY <1>2, <1>3 DEF Event, EventType
<1>6. TypeOK' /\ Held' /\ Timely'
  <2>1. reported' \in Status /\ incident' \in Row /\ messages' \subseteq Message
    BY <1>1, Typed DEF Status, IInv, BaseInv
  <2>2. incident'.count >= incident.count
    BY <1>1, CountTyped DEF IInv, BaseInv
  <2> QED BY <1>1, <1>4, <1>5, <2>1, <2>2, WriteStep
<1>7. Structure'
  BY <1>1, <1>4, <1>5, <1>6, ResolvedStructure
<1>8. Told'
  <2>1. messages' = messages /\ incident' = incident
    BY <1>1
  <2> QED BY <1>3, <1>4, <1>5, <2>1, ToldQuietly DEF IInv, BaseInv
<1>9. ClosedWithProof'
  BY <1>1 DEF ClosedWithProof
<1> QED BY <1>6, <1>7, <1>8, <1>9 DEF IInv, BaseInv

\* A recovery leaves the incident closed, and its proof is valid also after the
\* clock was set back.
LEMMA RecoverProves ==
    ASSUME IInv, NEW p \in Process, Recover(p)
    PROVE  IInv' /\ Classification' = "producer_verified_recovery"
<1> PICK n : n = Len(events)
  OBVIOUS
<1>1. /\ Set(p, Idle) /\ UNCHANGED World /\ Room
      /\ reported' = "producer_verified_recovery"
      /\ held[p].pc = "recover" /\ Enqueue({"resolved"}, Transitions /\ incident.notify)
      /\ incident' = IF incident.state = "resolved" THEN incident
                     ELSE [incident EXCEPT !.state = "resolved", !.resolved = held[p].at]
      /\ held[p].generation = Generation /\ held[p].evidence = incident
      /\ events[Generation].at <= held[p].at
      /\ Resolutions # {} => held[p].at > events[Max(Resolutions)].at
  BY DEF Recover, RecoveryPrepared
<1>2. held[p].at \in 0..MaxClock /\ held[p].at \in Never..MaxClock
      /\ held[p].evidence \in Row /\ held[p].generation \in 0..Limit
      /\ incident \in Row /\ incident.notify \in BOOLEAN /\ incident.state # "absent"
  <2>1. held[p].generation \in 0..Limit
    BY CountTyped DEF IInv, BaseInv, Command
  <2> QED BY <1>1, <2>1, CountTyped, Typed DEF IInv, BaseInv, Held, Row
<1>3. incident' \in Row /\ incident'.count = incident.count
      /\ incident'.state = "resolved" /\ incident'.notify = incident.notify
  BY <1>1, <1>2 DEF Row
<1> PICK proof : proof = [kind |-> "producer", expected |-> held[p].evidence,
                          resulting |-> incident', generation |-> held[p].generation,
                          observed |-> held[p].at, transitioned |-> Transitions]
  OBVIOUS
<1>4. Transitions \in BOOLEAN /\ (Transitions <=> Resolutions = {})
  BY DEF Transitions, IInv, BaseInv, Structure
<1>5. proof \in Proof
  BY <1>2, <1>3, <1>4 DEF Proof
<1> PICK e : e = [type |-> "resolved", at |-> held[p].at, proof |-> proof]
  OBVIOUS
<1>6. events' = Append(events, e) /\ e.type = "resolved" /\ e.at = held[p].at
      /\ e.proof = proof
  BY DEF Recover, Insert
<1>7. e \in Event
  BY <1>2, <1>5 DEF Event, EventType
<1>8. /\ messages' = messages \cup (IF Transitions /\ incident.notify
                                    THEN {[event |-> n + 1, kind |-> "resolved"]} ELSE {})
      /\ messages' \subseteq Message
  <2>1. (Transitions /\ incident.notify) \in BOOLEAN
    BY <1>2, <1>4
  <2> QED BY <1>1, <2>1, Announces DEF IInv, BaseInv
<1>9. TypeOK' /\ Held' /\ Timely'
  <2>1. reported' \in Status
    BY <1>1 DEF Status
  <2>2. incident'.count >= incident.count
    BY <1>3, CountTyped DEF IInv, BaseInv
  <2> QED BY <1>1, <1>3, <1>6, <1>7, <1>8, <2>1, <2>2, WriteStep
<1>10. Structure'
  BY <1>2, <1>3, <1>6, <1>7, <1>9, ResolvedStructure
<1>11. Told'
  <2>1. CASE Transitions
    BY <1>3, <1>4, <1>6, <1>7, <1>8, <2>1, ToldOnce DEF IInv, BaseInv
  <2>2. CASE ~Transitions
    <3>1. messages' = messages
      BY <1>8, <2>2
    <3> QED BY <1>3, <1>6, <1>7, <2>2, <3>1, ToldQuietly DEF IInv, BaseInv
  <2> QED BY <2>1, <2>2
<1>12. Classification' = "producer_verified_recovery"
  <2>1. Generation \in Generations /\ Generation \in DOMAIN events
    BY <1>2, GenerationKnown
  <2>2. /\ Generation' = Generation /\ Earlier(n + 1)' = Resolutions
        /\ events'[n + 1] = e /\ events'[Generation] = events[Generation]
        /\ Resolutions # {} => events'[Max(Resolutions)] = events[Max(Resolutions)]
    BY <1>6, <1>7, <1>9, <2>1, Resolves DEF IInv, BaseInv
  <2>3. held[p].at <= held[p].at
    BY <1>2
  <2>4. ProducerValid(n + 1)'
    <3>1. /\ proof.generation = Generation' /\ proof.resulting = incident'
          /\ proof.observed = held[p].at
          /\ proof.transitioned = (Earlier(n + 1)' = {})
      BY <1>1, <1>4, <2>2
    <3>2. events'[Generation'].at <= proof.observed /\ proof.observed <= events'[n + 1].at
      BY <1>1, <1>6, <2>2, <2>3, <3>1
    <3>3. Earlier(n + 1)' # {} => proof.observed > events'[Max(Earlier(n + 1)')].at
      BY <1>1, <2>2, <3>1
    <3> QED BY <1>6, <2>2, <3>1, <3>2, <3>3 DEF ProducerValid
  <2> QED BY <1>3, <1>6, <1>7, <1>9, <2>4, Classified DEF IInv, BaseInv
<1>13. ClosedWithProof'
  BY <1>1, <1>3, <1>12 DEF ClosedWithProof
<1> QED BY <1>9, <1>10, <1>11, <1>12, <1>13 DEF IInv, BaseInv

LEMMA StepInv == IInv /\ [Next]_vars => IInv'
<1> SUFFICES ASSUME IInv, [Next]_vars PROVE IInv'
  OBVIOUS
<1>1. ASSUME NEW p \in Process,
             \/ CallEmit(p) \/ ObserveScheduler(p) \/ Read(p)
             \/ CallOperator(p) \/ CallProducer(p) \/ Abandon(p)
      PROVE  IInv'
  BY <1>1, CallEmitKeeps, ObserveSchedulerKeeps, ReadKeeps, CallOperatorKeeps,
     CallProducerKeeps, AbandonKeeps
<1>2. ASSUME NEW p \in Process,
             Emit(p) \/ Acknowledge(p) \/ Resolve(p) \/ Attest(p) \/ Recover(p)
      PROVE  IInv'
  BY <1>2, EmitKeeps, AcknowledgeKeeps, ResolveKeeps, AttestKeeps, RecoverProves
<1>3. CASE Review \/ Tick \/ SetBack
  BY <1>3, WorldKeeps
<1>4. CASE UNCHANGED vars
  <2>1. /\ UNCHANGED <<incident, events, messages, reported, held, clock, setBacks>>
        /\ Generations' = Generations
    BY <1>4, SameLedger DEF vars
  <2>2. TypeOK'
    BY <1>4 DEF vars, IInv, BaseInv, TypeOK
  <2>3. (Structure /\ Told /\ ClosedWithProof)'
    BY <2>1, QuietLedger
  <2> QED BY <2>1, <2>2, <2>3 DEF IInv, BaseInv, Held, Timely
<1> QED BY <1>1, <1>2, <1>3, <1>4 DEF Next

LEMMA AlwaysInv == Spec => []IInv
  BY InitInv, StepInv, PTL DEF Spec

-----------------------------------------------------------------------------
(* What the invariant says of the messages.                                *)

\* The generation g was closed by at most one of its resolutions, and the message
\* of it is the only one of recovery.
LEMMA Once == BaseInv => ClosedOnce
<1> SUFFICES ASSUME BaseInv, NEW g \in Generations
             PROVE  LET closings == {i \in EventsOf({"resolved"}) :
                                       i > g /\ events[i].proof.transitioned
                                       /\ \A h \in Generations : h > g => i < h}
                    IN  /\ Cardinality(closings) <= 1
                        /\ Cardinality(Announced(g)) = IF incident.notify
                                                       THEN Cardinality(closings) ELSE 0
  BY DEF ClosedOnce
<1> DEFINE closings == {i \in EventsOf({"resolved"}) :
                          i > g /\ events[i].proof.transitioned
                          /\ \A h \in Generations : h > g => i < h}
<1>1. DOMAIN events = 1..Len(events) /\ Generations \subseteq DOMAIN events
      /\ messages \subseteq Message
  BY Typed DEF BaseInv, Generations, EventsOf
<1>2. \A i \in closings : i \in DOMAIN events /\ Closing(i) /\ i > g
                          /\ \A h \in Generations : h > g => i < h
  BY DEF Closing, EventsOf
<1>3. \A i, j \in closings : ~(i < j)
  <2> SUFFICES ASSUME NEW i \in closings, NEW j \in closings, i < j PROVE FALSE
    OBVIOUS
  <2> HIDE DEF closings
  <2>1. PICK h \in Generations : i < h /\ h < j
    BY <1>2 DEF BaseInv, Told
  <2>2. h \in Int /\ i \in Int /\ j \in Int /\ g \in Int
    BY <1>1, <1>2
  <2>3. h > g
    BY <1>2, <2>1, <2>2
  <2>4. j < h
    BY <1>2, <2>3
  <2> QED BY <2>1, <2>2, <2>4
<1>4. \A i, j \in closings : i = j
  <2> HIDE DEF closings
  <2> QED BY <1>1, <1>2, <1>3
<1>5. \A m \in Announced(g) : incident.notify /\ m.event \in closings
                              /\ m = [event |-> m.event, kind |-> "resolved"]
  BY <1>1 DEF Announced, BaseInv, Told, Closing, Message
<1>6. \A i \in closings : incident.notify =>
                             [event |-> i, kind |-> "resolved"] \in Announced(g)
  BY <1>2 DEF Announced, BaseInv, Told
<1> HIDE DEF closings
<1>7. CASE closings = {}
  <2>1. Announced(g) = {}
    BY <1>5, <1>7
  <2>2. Cardinality(closings) = 0 /\ Cardinality(Announced(g)) = 0
    BY <1>7, <2>1, FS_EmptySet
  <2> QED BY <2>2 DEF closings
<1>8. CASE closings # {}
  <2> PICK i : closings = {i}
    BY <1>4, <1>8
  <2>1. Cardinality(closings) = 1
    BY FS_Singleton
  <2>2. CASE incident.notify
    <3>1. Announced(g) = {[event |-> i, kind |-> "resolved"]}
      BY <1>5, <1>6, <2>2
    <3>2. Cardinality(Announced(g)) = 1
      BY <3>1, FS_Singleton
    <3> QED BY <2>1, <2>2, <3>2 DEF closings
  <2>3. CASE ~incident.notify
    <3>1. Announced(g) = {}
      BY <1>5, <2>3
    <3>2. Cardinality(Announced(g)) = 0
      BY <3>1, FS_EmptySet
    <3> QED BY <2>1, <2>3, <3>2 DEF closings
  <2> QED BY <2>2, <2>3
<1> QED BY <1>7, <1>8

\* The ledger keeps its types, can prove what it closed until the clock is set
\* back, and announces each closed generation once (resolve, resolve_fingerprint,
\* attest_legacy_resolution).
THEOREM LedgerHolds == Spec => []LedgerInv
<1>1. IInv => LedgerInv
  BY Once DEF IInv, BaseInv, LedgerInv
<1> QED BY AlwaysInv, <1>1, PTL

-----------------------------------------------------------------------------
(* Proofs last.                                                            *)

\* A new row that is not closed is not proven.
LEMMA OpenUnproven ==
    ASSUME incident.state # "resolved" PROVE Classification \notin Proven
  BY DEF Classification, Proven

LEMMA StepKeepsProof ==
    IInv /\ [Next]_vars /\ Classification \in Proven =>
      Classification' \in Proven \/ incident'.count > incident.count
<1> SUFFICES ASSUME IInv, [Next]_vars, Classification \in Proven
             PROVE  Classification' \in Proven \/ incident'.count > incident.count
  OBVIOUS
<1>1. incident.state = "resolved" /\ Classification # "legacy_unproven"
  BY OpenUnproven DEF Proven
<1>2. ASSUME UNCHANGED <<incident, events>> PROVE Classification' \in Proven
  BY <1>2, SameLedger
<1>3. ASSUME NEW p \in Process, Emit(p) PROVE incident'.count > incident.count
  <2>1. incident'.count = incident.count + 1
    BY <1>3 DEF Emit
  <2> QED BY <2>1, CountTyped DEF IInv, BaseInv
<1>4. ASSUME NEW p \in Process, Recover(p) PROVE Classification' \in Proven
  BY <1>4, RecoverProves DEF Proven
<1>5. ASSUME NEW p \in Process, Acknowledge(p) \/ Resolve(p) \/ Attest(p) PROVE FALSE
  BY <1>1, <1>5 DEF Acknowledge, Resolve, Attest
<1>6. ASSUME NEW p \in Process,
             \/ CallEmit(p) \/ ObserveScheduler(p) \/ Read(p)
             \/ CallOperator(p) \/ CallProducer(p) \/ Abandon(p)
      PROVE  Classification' \in Proven
  BY <1>2, <1>6 DEF CallEmit, ObserveScheduler, Read, CallOperator, CallProducer,
     Abandon, Ledger
<1>7. CASE Review \/ Tick \/ SetBack \/ UNCHANGED vars
  BY <1>2, <1>7 DEF Review, Tick, SetBack, Ledger, vars
<1> QED BY <1>3, <1>4, <1>5, <1>6, <1>7 DEF Next

\* A closed incident blocks again only because its failure recurred
\* (resolve_fingerprint, emit).
THEOREM ProofTheorem == Spec => ProofStands
<1>1. IInv /\ [Next]_vars =>
        [(Classification \in Proven) =>
           Classification' \in Proven \/ incident.count' > incident.count]_vars
  BY StepKeepsProof DEF vars
<1> QED BY AlwaysInv, <1>1, PTL DEF Spec, ProofStands

-----------------------------------------------------------------------------
(* The ledger implements ReviewedClosure.                                  *)

Seen == [q \in Process |-> held[q].evidence.count]

LEMMA SeenSet ==
    ASSUME TypeOK, NEW p \in Process, NEW s \in Command, Set(p, s)
    PROVE  Seen' = [Seen EXCEPT ![p] = s.evidence.count]
  BY Typed DEF Seen, Set

\* Whether the incident blocks, in the states the steps lead to.
LEMMA Blocks ==
    /\ incident.state \in {"open", "acknowledged"} => Blocking = TRUE
    /\ Classification \in Proven => Blocking = FALSE
    /\ incident.state # "absent" /\ Classification \notin Proven => Blocking = TRUE
    /\ Blocking \in BOOLEAN
  BY DEF Blocking, Classification, Proven

LEMMA BlocksNext ==
    /\ incident'.state \in {"open", "acknowledged"} => Blocking' = TRUE
    /\ Classification' \in Proven => Blocking' = FALSE
    /\ incident'.state # "absent" /\ Classification' \notin Proven => Blocking' = TRUE
  BY DEF Blocking, Classification, Proven

LEMMA ClosureStarts == Init => ReadClosure!ClosureInit
<1> SUFFICES ASSUME Init PROVE ReadClosure!ClosureInit
  OBVIOUS
<1>1. TypeOK /\ Structure
  BY InitInv DEF IInv, BaseInv
<1>2. Seen = [q \in Process |-> 0]
  BY IdleTyped DEF Init, Seen
<1>3. CASE incident = AbsentRow
  <2>1. incident.count = 0 /\ Blocking = FALSE
    BY <1>3 DEF AbsentRow, Blocking
  <2> QED BY <1>2, <2>1 DEF ReadClosure!ClosureInit, Seen
<1>4. CASE incident = LegacyRow /\ events = << [type |-> "opened", at |-> 0, proof |-> NoProof],
                             [type |-> "resolved", at |-> 0, proof |-> NoProof] >>
  <2>1. incident.count = 1 /\ incident.state = "resolved"
    BY <1>4 DEF LegacyRow, AbsentRow
  <2>2. Resolutions # {}
    BY <1>1, <2>1 DEF Structure
  <2>3. Max(Resolutions) \in DOMAIN events
    BY <1>1, <2>2, ResolutionLast, Typed
  <2>4. events[Max(Resolutions)].proof.kind = "none"
    BY <1>4, <2>3 DEF NoProof
  <2>5. Classification = "legacy_unproven"
    BY <2>1, <2>2, <2>4 DEF Classification
  <2>6. Blocking = TRUE
    BY <2>1, <2>5, Blocks DEF Proven
  <2> QED BY <1>2, <2>1, <2>6 DEF ReadClosure!ClosureInit, Seen
<1> QED BY <1>3, <1>4 DEF Init

\* What a step that writes nothing does to the promise.
LEMMA ReadsOnly ==
    ASSUME UNCHANGED Ledger PROVE UNCHANGED <<incident.count, Blocking>>
  BY SameLedger DEF Ledger, Blocking

LEMMA ForgetStep ==
    ASSUME TypeOK, NEW p \in Process, Set(p, Idle) \/ \E s \in Command :
              Set(p, s) /\ s.evidence.count = 0,
           incident'.count = incident.count, Blocking' = Blocking
    PROVE  ReadClosure!Forget(p)
<1>1. Seen' = [Seen EXCEPT ![p] = 0]
  BY SeenSet, IdleTyped
<1> QED BY <1>1 DEF ReadClosure!Forget, Seen

LEMMA ClearStep ==
    ASSUME TypeOK, NEW p \in Process, Set(p, Idle), held[p].evidence = incident,
           incident'.count = incident.count, Blocking' = FALSE
    PROVE  ReadClosure!Clear(p)
<1>1. Seen' = [Seen EXCEPT ![p] = 0]
  BY SeenSet, IdleTyped
<1>2. Seen[p] = incident.count
  BY DEF Seen
<1> QED BY <1>1, <1>2 DEF ReadClosure!Clear, Seen

LEMMA ClosureStep == IInv /\ [Next]_vars => [ReadClosure!ClosureNext]_(ReadClosure!closureVars)
<1> SUFFICES ASSUME IInv, [Next]_vars
             PROVE  [ReadClosure!ClosureNext]_(ReadClosure!closureVars)
  OBVIOUS
<1> USE DEF IInv, BaseInv
<1>1. ASSUME NEW p \in Process, CallEmit(p) \/ ObserveScheduler(p) \/ Abandon(p)
      PROVE  ReadClosure!Forget(p)
  <2>1. UNCHANGED Ledger
    BY <1>1 DEF CallEmit, ObserveScheduler, Abandon
  <2>2. incident'.count = incident.count /\ Blocking' = Blocking
    BY <2>1, ReadsOnly
  <2>3. CASE CallEmit(p)
    <3> PICK s : s = [Idle EXCEPT !.pc = "emit", !.at = clock]
      OBVIOUS
    <3>1. clock \in Never..MaxClock
      BY Typed DEF Never
    <3>2. s \in Command /\ s.evidence.count = 0
      BY <3>1, IdleTyped DEF Command
    <3> QED BY <2>2, <2>3, <3>2, ForgetStep DEF CallEmit
  <2>4. CASE ObserveScheduler(p)
    <3> PICK s : s = [Idle EXCEPT !.pc = "looked", !.seen = incident.count]
      OBVIOUS
    <3>1. s \in Command /\ s.evidence.count = 0
      BY IdleTyped, CountTyped DEF Command
    <3> QED BY <2>2, <2>4, <3>1, ForgetStep DEF ObserveScheduler
  <2>5. CASE Abandon(p)
    BY <2>2, <2>5, ForgetStep DEF Abandon
  <2> QED BY <1>1, <2>3, <2>4, <2>5
<1>2. ASSUME NEW p \in Process, Read(p)
      PROVE  ReadClosure!Look(p)
  <2>1. incident'.count = incident.count /\ Blocking' = Blocking
    BY <1>2, ReadsOnly DEF Read
  <2>2. Seen' = [Seen EXCEPT ![p] = incident.count]
    BY <1>2, Typed DEF Read, Set, Seen
  <2> QED BY <2>1, <2>2 DEF ReadClosure!Look, Seen
<1>3. ASSUME NEW p \in Process, CallOperator(p) \/ CallProducer(p)
      PROVE  UNCHANGED ReadClosure!closureVars
  <2>1. incident'.count = incident.count /\ Blocking' = Blocking
    BY <1>3, ReadsOnly DEF CallOperator, CallProducer
  <2>2. \A q \in Process : held'[q].evidence = held[q].evidence
    <3>1. PICK pc \in {"operate", "recover"} :
            held' = [held EXCEPT ![p] = [held[p] EXCEPT !.pc = pc, !.at = clock]]
      BY <1>3 DEF CallOperator, CallProducer, Set
    <3> PICK s : s = [held[p] EXCEPT !.pc = pc, !.at = clock]
      OBVIOUS
    <3>2. s.evidence = held[p].evidence
      BY CountTyped DEF Command
    <3> QED BY <3>1, <3>2, Typed
  <2>3. Seen' = Seen
    BY <2>2 DEF Seen
  <2> QED BY <2>1, <2>3 DEF ReadClosure!closureVars, Seen
<1>4. ASSUME NEW p \in Process, Emit(p)
      PROVE  ReadClosure!Occur
  <2>1. incident'.count = incident.count + 1 /\ incident'.state = "open" /\ Set(p, Idle)
    BY <1>4 DEF Emit
  <2>2. Seen' = [Seen EXCEPT ![p] = 0]
    BY <2>1, SeenSet, IdleTyped
  <2> QED BY <2>1, <2>2, BlocksNext DEF ReadClosure!Occur, Seen
<1>5. ASSUME NEW p \in Process, Acknowledge(p)
      PROVE  ReadClosure!Forget(p)
  <2>1. incident.state = "open" /\ incident \in Row /\ Set(p, Idle)
        /\ incident' = [incident EXCEPT !.state = "acknowledged",
                                        !.acknowledged = held[p].at]
    BY <1>5, Typed DEF Acknowledge
  <2>2. incident'.count = incident.count /\ incident'.state = "acknowledged"
    BY <2>1 DEF Row
  <2> QED BY <2>1, <2>2, Blocks, BlocksNext, ForgetStep
<1>6. ASSUME NEW p \in Process, Resolve(p)
      PROVE  ReadClosure!Clear(p) \/ ReadClosure!Forget(p)
  <2>1. incident.state \in {"open", "acknowledged"} /\ incident \in Row /\ Set(p, Idle)
        /\ held[p].evidence = incident
        /\ incident' = [incident EXCEPT !.state = "resolved", !.resolved = held[p].at]
    BY <1>6, Typed DEF Resolve, Reviewed
  <2>2. incident'.count = incident.count /\ incident'.state = "resolved"
    BY <2>1 DEF Row
  <2>3. CASE Classification' \in Proven
    BY <2>1, <2>2, <2>3, BlocksNext, ClearStep
  <2>4. CASE Classification' \notin Proven
    <3>1. Blocking' = TRUE /\ Blocking = TRUE
      BY <2>1, <2>2, <2>4, Blocks, BlocksNext
    <3> QED BY <2>1, <2>2, <3>1, ForgetStep
  <2> QED BY <2>3, <2>4
<1>7. ASSUME NEW p \in Process, Attest(p)
      PROVE  ReadClosure!Clear(p)
  <2>1. Set(p, Idle) /\ held[p].evidence = incident /\ incident' = incident
        /\ Classification' \in Proven
    BY <1>7 DEF Attest, Proven
  <2> QED BY <2>1, BlocksNext, ClearStep
<1>8. ASSUME NEW p \in Process, Recover(p)
      PROVE  ReadClosure!Clear(p)
  <2>1. Set(p, Idle) /\ held[p].evidence = incident /\ incident \in Row
        /\ incident' = IF incident.state = "resolved" THEN incident
                       ELSE [incident EXCEPT !.state = "resolved", !.resolved = held[p].at]
    BY <1>8, Typed DEF Recover, RecoveryPrepared
  <2>2. incident'.count = incident.count
    BY <2>1 DEF Row
  <2>3. Classification' \in Proven
    BY <1>8, RecoverProves DEF Proven
  <2> QED BY <2>1, <2>2, <2>3, BlocksNext, ClearStep
<1>9. CASE Review \/ Tick \/ SetBack \/ UNCHANGED vars
  <2>1. UNCHANGED <<incident, events, held>>
    BY <1>9 DEF Review, Tick, SetBack, Ledger, vars
  <2>2. incident'.count = incident.count /\ Blocking' = Blocking
    BY <2>1, SameLedger DEF Blocking
  <2> QED BY <2>1, <2>2 DEF ReadClosure!closureVars
<1> QED BY <1>1, <1>2, <1>3, <1>4, <1>5, <1>6, <1>7, <1>8, <1>9
     DEF Next, ReadClosure!ClosureNext

\* Nobody clears an occurrence that was recorded after they read the incident
\* (resolve, attest_legacy_resolution, resolve_fingerprint).
THEOREM ReadTheorem == Spec => ReadPromise
<1>1. ReadPromise <=> ReadClosure!ClosureInit
                      /\ [][ReadClosure!ClosureNext]_(ReadClosure!closureVars)
  BY DEF ReadPromise, ReadClosure!ClosureSpec
<1> QED BY AlwaysInv, ClosureStarts, ClosureStep, <1>1, PTL DEF Spec

=============================================================================
