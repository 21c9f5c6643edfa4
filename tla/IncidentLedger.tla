---------------------------- MODULE IncidentLedger ----------------------------
(***************************************************************************)
(* One incident of the operations ledger (src/aios/alerts.py): its row, its *)
(* append-only events and the messages they queue, under the commands of   *)
(* operators (alert-ack, alert-resolve, alert-attest-resolution) and of    *)
(* programs that record failures and recoveries (alert-reconcile-          *)
(* fundamentals, scheduler-status).                                        *)
(*                                                                         *)
(* Every command reads the incident, takes the time, and only then opens   *)
(* its transaction; a transaction is one step.  The evidence hash of an    *)
(* incident covers its whole row, so the row itself stands for it.         *)
(***************************************************************************)
EXTENDS Integers, Sequences, FiniteSets, FiniteSetsExt

CONSTANTS
  Process,      \* commands that run at the same time
  Observers,    \* the programs whose incident this may be
  MaxEvents,    \* bound: events appended to the incident
  MaxCount,     \* bound: occurrences of the failure
  MaxClock,     \* bound: seconds
  MaxUpheavals  \* bound: reviews of the fundamentals cases and set backs of the clock

ASSUME LedgerAssumption ==
  /\ Observers \subseteq {"fundamentals", "scheduler"}
  /\ {MaxEvents, MaxCount, MaxClock, MaxUpheavals} \subseteq Nat /\ MaxCount > 0

VARIABLES
  observer,  \* the program that records this failure and its recovery
  incident,  \* the row
  events,    \* the events in append order
  messages,  \* messages queued, each for one event
  reviews,   \* version of the anomaly cases a reconciliation rests on
  held,      \* what each command has read and is about to do
  reported,  \* what the last closing command told its caller
  clock,     \* wall clock in seconds
  setBacks

vars == <<observer, incident, events, messages, reviews, held, reported, clock, setBacks>>

Never == -1
Limit == MaxEvents + 2
Severity == 1..2
Row == [state : {"absent", "open", "acknowledged", "resolved"}, severity : Severity,
        count : 0..MaxCount, last : Never..MaxClock, acknowledged : Never..MaxClock,
        resolved : Never..MaxClock, notify : BOOLEAN]
AbsentRow == [state |-> "absent", severity |-> 1, count |-> 0, last |-> Never,
              acknowledged |-> Never, resolved |-> Never, notify |-> FALSE]

NoProof == [kind |-> "none", expected |-> AbsentRow, resulting |-> AbsentRow,
            generation |-> 0, observed |-> Never, transitioned |-> FALSE]
Proof == [kind : {"none", "manual", "producer"}, expected : Row, resulting : Row,
          generation : 0..Limit, observed : Never..MaxClock, transitioned : BOOLEAN]
EventType == {"opened", "repeated", "reopened", "acknowledged", "resolved"}
Event == [type : EventType, at : 0..MaxClock, proof : Proof]
Message == [event : 1..Limit,
            kind : {"opened", "reopened", "escalated", "resolved"}]

\* seen: the occurrences recorded when the command last looked at the world.
Command == [pc : {"idle", "looked", "observed", "read", "emit", "operate", "recover"},
            evidence : Row, generation : 0..Limit, review : 0..MaxUpheavals,
            at : Never..MaxClock, seen : 0..MaxCount]
Idle == [pc |-> "idle", evidence |-> AbsentRow, generation |-> 0, review |-> 0,
         at |-> Never, seen |-> 0]

Status == {"not_applicable", "invalid", "legacy_unproven", "manual",
           "producer_verified_recovery"}

TypeOK ==
  /\ observer \in Observers
  /\ incident \in Row
  /\ events \in Seq(Event) /\ Len(events) <= Limit
  /\ messages \subseteq Message
  /\ reviews \in 0..MaxUpheavals
  /\ held \in [Process -> Command]
  /\ reported \in Status
  /\ clock \in 0..MaxClock /\ setBacks \in 0..MaxUpheavals

LegacyRow == [AbsentRow EXCEPT !.state = "resolved", !.count = 1, !.last = 0,
                               !.resolved = 0, !.notify = TRUE]

\* Nothing yet, or an incident that an earlier version closed without a proof.
Init ==
  /\ observer \in Observers
  /\ \/ incident = AbsentRow /\ events = <<>>
     \/ /\ incident = LegacyRow
        /\ events = << [type |-> "opened", at |-> 0, proof |-> NoProof],
                       [type |-> "resolved", at |-> 0, proof |-> NoProof] >>
  /\ messages = {} /\ reviews = 0
  /\ held = [p \in Process |-> Idle]
  /\ reported = "not_applicable"
  /\ clock = 0 /\ setBacks = 0

\* What an earlier version left does not count against the bound.
Inherited ==
  IF Len(events) > 1 /\ events[2].type = "resolved" /\ events[2].proof.kind = "none"
  THEN 2 ELSE 0
Room == Len(events) < Inherited + MaxEvents

-----------------------------------------------------------------------------
(* Reading the events.                                                     *)

EventsOf(types) == {i \in DOMAIN events : events[i].type \in types}
Generations == EventsOf({"opened", "reopened"})
Generation == IF Generations = {} THEN 0 ELSE Max(Generations)
Resolutions == {i \in EventsOf({"resolved"}) : i > Generation}

\* Resolutions of the present generation before i.
Earlier(i) == {j \in Resolutions : j < i}

ManualValid(i) ==
  LET proof == events[i].proof IN
  /\ proof.resulting = incident
  /\ events[i].at >= events[Generation].at
  /\ proof.transitioned = (Earlier(i) = {})
  /\ Earlier(i) # {} => /\ events[i].at > events[Max(Earlier(i))].at
                        /\ proof.expected = incident

ProducerValid(i) ==
  LET proof == events[i].proof IN
  /\ proof.generation = Generation
  /\ proof.resulting = incident
  /\ events[Generation].at <= proof.observed /\ proof.observed <= events[i].at
  /\ Earlier(i) # {} => proof.observed > events[Max(Earlier(i))].at
  /\ proof.transitioned = (Earlier(i) = {})

\* classify_incident_resolution
Classification ==
  IF incident.state # "resolved" THEN "not_applicable"
  ELSE IF Resolutions = {} THEN "invalid"
  ELSE LET i == Max(Resolutions) IN
       CASE events[i].proof.kind = "none" -> "legacy_unproven"
         [] events[i].proof.kind = "manual" ->
              IF ManualValid(i) THEN "manual" ELSE "invalid"
         [] events[i].proof.kind = "producer" ->
              IF ProducerValid(i) THEN "producer_verified_recovery" ELSE "invalid"

Proven == {"manual", "producer_verified_recovery"}

\* operationally_blocking; the synthetic incidents of alert-test are left out.
Blocking == incident.state # "absent" /\ Classification \notin Proven

-----------------------------------------------------------------------------
(* Commands before their transaction.                                      *)

Set(p, command) == held' = [held EXCEPT ![p] = command]
Ledger == <<incident, events, messages, reported>>
World == <<observer, reviews, clock, setBacks>>

\* A program meets its failure and takes the time of the alert.
CallEmit(p) ==
  /\ held[p].pc = "idle" /\ incident.count < MaxCount
  /\ Set(p, [Idle EXCEPT !.pc = "emit", !.at = clock])
  /\ UNCHANGED <<Ledger, World>>

\* scheduler-status asks the service manager before it reads the ledger.
ObserveScheduler(p) ==
  /\ observer = "scheduler" /\ held[p].pc = "idle" /\ incident.state # "absent"
  /\ Set(p, [Idle EXCEPT !.pc = "looked", !.seen = incident.count])
  /\ UNCHANGED <<Ledger, World>>

\* alert-show for an operator, recovery_context for a program.
Read(p) ==
  /\ incident.state # "absent" /\ held[p].pc \in {"idle", "looked"}
  /\ Set(p, [pc |-> IF held[p].pc = "looked" THEN "observed" ELSE "read",
             evidence |-> incident, generation |-> Generation, review |-> reviews,
             at |-> Never,
             seen |-> IF held[p].pc = "looked" THEN held[p].seen ELSE incident.count])
  /\ UNCHANGED <<Ledger, World>>

CallOperator(p) ==
  /\ held[p].pc = "read"
  /\ Set(p, [held[p] EXCEPT !.pc = "operate", !.at = clock])
  /\ UNCHANGED <<Ledger, World>>

\* The observation is dated when the evidence is built, after the context.
CallProducer(p) ==
  /\ held[p].pc = IF observer = "scheduler" THEN "observed" ELSE "read"
  /\ Set(p, [held[p] EXCEPT !.pc = "recover", !.at = clock])
  /\ UNCHANGED <<Ledger, World>>

\* The command is abandoned, or its process dies.
Abandon(p) ==
  /\ held[p].pc # "idle"
  /\ Set(p, Idle)
  /\ UNCHANGED <<Ledger, World>>

-----------------------------------------------------------------------------
(* Transactions.                                                           *)

\* _insert_event
Insert(type, at, proof) ==
  events' = Append(events, [type |-> type, at |-> at, proof |-> proof])

\* _enqueue_incident_notification, for the event that is being inserted.
Enqueue(kinds, notify) ==
  messages' = messages \cup
    {[event |-> Len(events) + 1, kind |-> k] : k \in {x \in kinds : notify}}

EmitMessage(severity) ==
  CASE incident.state = "absent" -> {"opened"}
    [] incident.state \in {"acknowledged", "resolved"} -> {"reopened"}
    [] OTHER -> IF severity > incident.severity THEN {"escalated"} ELSE {}

Emit(p) ==
  /\ held[p].pc = "emit" /\ Room /\ incident.count < MaxCount
  /\ \E severity \in Severity, notify \in BOOLEAN :
       /\ incident.state # "absent" => notify = incident.notify
       /\ incident' = [state |-> "open", severity |-> Max({incident.severity, severity}),
                       count |-> incident.count + 1, last |-> held[p].at,
                       acknowledged |-> Never, resolved |-> Never, notify |-> notify]
       /\ Enqueue(EmitMessage(severity), notify)
  /\ Insert(CASE incident.state = "absent" -> "opened"
              [] incident.state = "open" -> "repeated"
              [] OTHER -> "reopened", held[p].at, NoProof)
  /\ Set(p, Idle)
  /\ UNCHANGED <<reported, World>>

Acknowledge(p) ==
  /\ held[p].pc = "operate" /\ Room
  /\ incident.state = "open" /\ held[p].evidence = incident
  /\ incident' = [incident EXCEPT !.state = "acknowledged", !.acknowledged = held[p].at]
  /\ Insert("acknowledged", held[p].at,
            [NoProof EXCEPT !.kind = "manual", !.expected = held[p].evidence,
                            !.resulting = incident'])
  /\ Set(p, Idle)
  /\ UNCHANGED <<messages, reported, World>>

\* Fault: the evidence the operator reviewed is not compared with the present.
Reviewed_Anyway(p) == TRUE

Reviewed(p) == held[p].evidence = incident

Resolve(p) ==
  /\ held[p].pc = "operate" /\ Room
  /\ incident.state \in {"open", "acknowledged"} /\ Reviewed(p)
  /\ incident' = [incident EXCEPT !.state = "resolved", !.resolved = held[p].at]
  /\ Insert("resolved", held[p].at,
            [NoProof EXCEPT !.kind = "manual", !.expected = held[p].evidence,
                            !.resulting = incident', !.transitioned = TRUE])
  /\ Enqueue({"resolved"}, incident.notify)
  /\ reported' = "manual"
  /\ Set(p, Idle)
  /\ UNCHANGED World

\* attest_legacy_resolution, with its check of the proof it just inserted.
Attest(p) ==
  /\ held[p].pc = "operate" /\ Room
  /\ incident.state = "resolved" /\ Classification = "legacy_unproven"
  /\ held[p].evidence = incident
  /\ held[p].at >= events[Generation].at /\ held[p].at > events[Max(Resolutions)].at
  /\ Insert("resolved", held[p].at,
            [NoProof EXCEPT !.kind = "manual", !.expected = held[p].evidence,
                            !.resulting = incident])
  /\ reported' = "manual"
  /\ Set(p, Idle)
  /\ UNCHANGED <<incident, messages, World>>
  /\ Classification' = "manual"

\* Fault: a recovery of an incident that is closed already announces it again.
Transitions_Always == TRUE

Transitions == incident.state # "resolved"

\* Fault: a recovery may be as old as the proof that is there already.
RecoveryPrepared_AnyOrder(p) ==
  /\ held[p].generation = Generation /\ held[p].evidence = incident
  /\ events[Generation].at <= held[p].at
  /\ observer = "fundamentals" => held[p].review = reviews

\* _prepare_producer_recovery; the observation and the record of it are dated
\* one right after the other.
RecoveryPrepared(p) ==
  /\ held[p].generation = Generation /\ held[p].evidence = incident
  /\ events[Generation].at <= held[p].at
  /\ Resolutions # {} => held[p].at > events[Max(Resolutions)].at
  /\ observer = "fundamentals" => held[p].review = reviews

\* resolve_fingerprint
Recover(p) ==
  /\ held[p].pc = "recover" /\ Room
  /\ RecoveryPrepared(p)
  /\ incident' = IF incident.state = "resolved" THEN incident
                 ELSE [incident EXCEPT !.state = "resolved", !.resolved = held[p].at]
  /\ Insert("resolved", held[p].at,
            [kind |-> "producer", expected |-> held[p].evidence, resulting |-> incident',
             generation |-> held[p].generation, observed |-> held[p].at,
             transitioned |-> Transitions])
  /\ Enqueue({"resolved"}, Transitions /\ incident.notify)
  /\ reported' = "producer_verified_recovery"
  /\ Set(p, Idle)
  /\ UNCHANGED World

-----------------------------------------------------------------------------

\* Review of the anomaly cases of a partial fundamentals refresh.
Review == observer = "fundamentals" /\ reviews + setBacks < MaxUpheavals
          /\ reviews' = reviews + 1
          /\ UNCHANGED <<observer, Ledger, held, clock, setBacks>>
Tick == clock < MaxClock /\ clock' = clock + 1
        /\ UNCHANGED <<observer, Ledger, held, reviews, setBacks>>
SetBack == clock > 0 /\ reviews + setBacks < MaxUpheavals
           /\ clock' = clock - 1 /\ setBacks' = setBacks + 1
           /\ UNCHANGED <<observer, Ledger, held, reviews>>

Next ==
  \/ \E p \in Process :
       \/ CallEmit(p) \/ ObserveScheduler(p) \/ Read(p)
       \/ CallOperator(p) \/ CallProducer(p) \/ Abandon(p)
       \/ Emit(p) \/ Acknowledge(p) \/ Resolve(p) \/ Attest(p) \/ Recover(p)
  \/ Review \/ Tick \/ SetBack

Spec == Init /\ [][Next]_vars

-----------------------------------------------------------------------------
(* Properties.                                                             *)

\* "Close one exact incident generation with an immutable operator audit
\* proof" (resolve): what this ledger closes it can prove, and it says so.
\* The ledger compares wall clock times: this holds until the clock is set back.
ClosedWithProof ==
  setBacks = 0 /\ Resolutions # {} /\ events[Max(Resolutions)].proof.kind # "none" =>
    /\ incident.state = "resolved"
    /\ Classification = reported

\* A proof lasts: a closed incident blocks again only because it recurred.
ProofStands ==
  [][(Classification \in Proven) =>
       Classification' \in Proven \/ incident.count' > incident.count]_vars

\* One message of recovery for each generation that was closed, however many
\* proofs follow.  An incident closed by an earlier version announced itself.
Announced(g) == {m \in messages : m.kind = "resolved" /\ m.event > g
                   /\ \A h \in Generations : h > g => m.event < h}
ClosedOnce ==
  \A g \in Generations :
    LET closings == {i \in EventsOf({"resolved"}) : i > g /\ events[i].proof.transitioned
                       /\ \A h \in Generations : h > g => i < h}
    IN  /\ Cardinality(closings) <= 1
        /\ Cardinality(Announced(g)) = IF incident.notify THEN Cardinality(closings) ELSE 0

\* Nobody clears an occurrence that was recorded after they read the incident.
ReadClosure == INSTANCE ReviewedClosure WITH
  occurrences <- incident.count, blocking <- Blocking,
  seen <- [p \in Process |-> held[p].evidence.count]
ReadPromise == ReadClosure!ClosureSpec

\* Nobody clears an occurrence that was recorded after they looked at the world.
Closure == INSTANCE ReviewedClosure WITH
  occurrences <- incident.count, blocking <- Blocking,
  seen <- [p \in Process |-> held[p].seen]
ClosurePromise == Closure!ClosureSpec

\* The invariant of the ledger: its rows have their types, what it closed it
\* can prove, and each closed generation was announced once (resolve).
LedgerInv == TypeOK /\ ClosedWithProof /\ ClosedOnce

=============================================================================
