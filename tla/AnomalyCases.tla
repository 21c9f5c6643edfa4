----------------------------- MODULE AnomalyCases -----------------------------
(***************************************************************************)
(* The anomaly scans and the governed review queue behind them             *)
(* (src/src/aios/alerts.py 1673-3320, cli.py anomaly-scan and              *)
(* anomaly-review).  One rule of AnomalyRules is scheduled: every rule     *)
(* writes a scope of its own and the ledger relates only scans of one      *)
(* scope.  A scan reads the analytical store and the retained responses,   *)
(* and recording it opens, refreshes or reopens one case per finding in    *)
(* one transaction; an operator acknowledges, defers and resolves cases    *)
(* against the exact evidence he has read.                                 *)
(*                                                                         *)
(* Every case row is a projection of its append-only events: each command  *)
(* replays the events and refuses to go on when they disagree.             *)
(***************************************************************************)
EXTENDS AnomalyRules

CONSTANTS Rules,        \* the rules that may be scheduled
          FirstWorld,   \* per rule, the store and the responses at the start
          Answers,      \* per rule, what a provider may answer next
          Edits,        \* per rule, the contents a direct edit may leave
          Owners,
          Verdicts,     \* the outcomes a person chooses from
          MaxClock,     \* bound on the days
          MaxScans,     \* bound on the recorded scans
          MaxEvents,    \* bound on the events of a case
          MaxKept,      \* bound on the retained responses
          None

RuleNames == {"sec", "price", "coverage", "mapping", "shares", "filings", "factor"}

(* What the store, or a response, of a rule may hold.                      *)
Contents(r) == {FirstWorld[r].data} \cup Answers[r] \cup Edits[r]
Response(r) == [at : 1..MaxClock, data : Contents(r), intact : BOOLEAN]

ASSUME ReviewAssumption == /\ MaxClock \in Nat \ {0} /\ MaxScans \in Nat
                           /\ Lookback \in Nat /\ MinDrop \in Nat
                           /\ None \notin Owners
                           /\ Rules \subseteq RuleNames

(* A rule starts with responses of the first day.                          *)
ASSUME WorldAssumption ==
    \A r \in Rules : /\ FirstWorld[r] \in [data : Contents(r), kept : Seq(Response(r))]
                     /\ FirstWorld[r].kept # <<>>

(* The rows of share counts have their types.                              *)
ASSUME SharesAssumption ==
    "shares" \in Rules =>
        \A d \in Contents("shares") : \A x \in d :
            x.period \in Nat /\ x.filed \in Nat /\ x.value \in Int

VARIABLES rule,      \* the rule that is scheduled
          world,     \* the analytical store and the retained responses
          clock,     \* the day
          pending,   \* the scan built and not yet recorded, or None
          scans,     \* anomaly_scans in order of recorded_sequence
          cases,     \* anomaly_cases by fingerprint
          events,    \* anomaly_case_events by fingerprint, append-only
          factors    \* factor percentile baselines, one per day

vars == <<rule, world, clock, pending, scans, cases, events, factors>>

Observing == {"opened", "evidence_changed", "reopened"}
Corrected == {"source_corrected", "mapping_corrected"}
Outcomes  == Corrected \cup {"accepted", "false_positive"}

ASSUME VerdictAssumption == Verdicts \subseteq Outcomes

-----------------------------------------------------------------------------
(* The scan of a day.  The identity of a scan is the hash of its boundary; *)
(* its payload also holds the context and the clearance proofs.            *)

Unresolved == {s \in DOMAIN cases : cases[s].state # "resolved"}

(* The newest recorded scan of the scope is the coverage baseline, the     *)
(* newest snapshot before the day the factor baseline.                     *)
CoverageBaseline ==
    IF scans = <<>> THEN [known |-> FALSE]
    ELSE [known |-> TRUE, asof |-> Last(scans).asof, value |-> Last(scans).id.extra]
FactorBaseline(asof) ==
    LET before == {d \in DOMAIN factors : d < asof}
    IN  IF before = {} THEN [known |-> FALSE, asof |-> 0]
        ELSE [known |-> TRUE, asof |-> Max(before), value |-> factors[Max(before)]]

RunDetector(asof) ==
    CASE rule = "sec"      -> SecScan(world, asof)
      [] rule = "price"    -> PriceScan(world, asof, Unresolved)
      [] rule = "coverage" -> CoverageScan(world, asof, CoverageBaseline)
      [] rule = "mapping"  -> MappingScan(world, asof)
      [] rule = "shares"   -> SharesScan(world, asof)
      [] rule = "filings"  -> FilingsScan(world, asof)
      [] rule = "factor"   -> FactorScan(world, asof, FactorBaseline(asof))

Built(r, asof) ==
    [id       |-> [asof |-> asof, boundary |-> r.boundary, found |-> r.findings, extra |-> r.extra],
     asof     |-> asof, boundary |-> r.boundary, findings |-> r.findings,
     context  |-> r.context, proofs |-> r.proofs, policy |-> "v2", at |-> 0]

Stamped(p) == [p EXCEPT !.at = clock]

SameScan(p, q) == p.id = q.id
SamePayload(p, q) == SameScan(p, q) /\ p.context = q.context /\ p.proofs = q.proofs

Manifest(p) == {[subject |-> f.subject, evid |-> f.evid] : f \in p.findings}
Finds(p, s) == \E f \in p.findings : f.subject = s
Finding(p, s) == CHOOSE f \in p.findings : f.subject = s

-----------------------------------------------------------------------------
(* Acceptance of missing SEC coverage for an issuer that took over from    *)
(* another needs a contract: no periodic form was filed yet, and the       *)
(* current scan is of the evidence's own date.                             *)

NeedsContract(c) == rule = "sec" /\ c.evid.value.heir
PrePeriodic(c) == c.evid.value.stage = "registration"
Contract(c, ss) ==
    IF PrePeriodic(c) /\ ss[c.last].asof = c.evid.asof
    THEN [evid |-> c.evid] ELSE None

(* The events of a case replayed from the first to the last.               *)
Nothing == [state |-> None, owner |-> None, first |-> 0, count |-> 0, evid |-> None, sev |-> 0,
            disp |-> None, resolved |-> 0, review |-> 0, ack |-> 0, verif |-> 0,
            from |-> 0, at |-> 0, ok |-> TRUE]

ObservationFits(p, e, c, s, ss) ==
    /\ e.scan \in DOMAIN ss /\ ss[e.scan].at = e.at
    /\ [subject |-> s, evid |-> e.evid] \in Manifest(ss[e.scan])
    /\ \/ e.type = "opened" /\ p.state = None
       \/ e.type = "evidence_changed" /\ p.state \in {"open", "acknowledged"}
       \/ e.type = "reopened" /\ p.state \in {"resolved", "deferred"}

(* A decision is about the evidence then current.  The contract of an      *)
(* acceptance is worked out again from the row as it is now.               *)
ReviewFits(p, e, c, ss) ==
    /\ p.evid # None /\ e.evid = p.evid
    /\ \/ e.type = "acknowledged" /\ p.state = "open"
       \/ e.type = "deferred" /\ p.state \in {"open", "acknowledged", "deferred"} /\ e.until > e.at
       \/ /\ e.type = "resolved" /\ p.state \in {"open", "acknowledged", "deferred"}
          /\ e.disp \in Corrected => e.scan # 0
          /\ e.contract = IF e.disp = "accepted" /\ NeedsContract(c) THEN Contract(c, ss) ELSE None

Fits(p, e, c, s, ss) ==
    /\ p.ok /\ e.at >= p.at
    /\ IF e.type \in Observing THEN ObservationFits(p, e, c, s, ss) ELSE ReviewFits(p, e, c, ss)

Observe(p, e) ==
    [p EXCEPT !.state = IF e.type = "evidence_changed" THEN @ ELSE "open",
              !.owner = IF e.type = "reopened" THEN None ELSE @,
              !.ack   = IF e.type = "reopened" THEN 0 ELSE @,
              !.first = IF e.type = "opened" THEN e.at ELSE @,
              !.count = @ + 1, !.evid = e.evid, !.sev = Max({@, e.sev}), !.from = e.scan,
              !.disp = None, !.resolved = 0, !.review = 0, !.verif = 0]
Decide(p, e) ==
    IF e.type = "acknowledged" THEN [p EXCEPT !.state = "acknowledged", !.owner = e.actor, !.ack = e.at]
    ELSE [p EXCEPT !.state = e.type, !.owner = e.actor, !.disp = e.disp, !.review = e.until,
                   !.resolved = IF e.type = "resolved" THEN e.at ELSE 0,
                   !.verif = IF e.type = "resolved" THEN e.scan ELSE 0]

Replayed(es, c, s, ss) ==
    FoldLeft(LAMBDA p, e : [(IF e.type \in Observing THEN Observe(p, e) ELSE Decide(p, e))
                              EXCEPT !.ok = Fits(p, e, c, s, ss), !.at = e.at],
             Nothing, es)

(* The row must be what its events say, seen last by the newest scan, the  *)
(* one being recorded left aside, whose manifest holds its evidence.       *)
Verified(c, s, es, ss, skip) ==
    LET p    == Replayed(es, c, s, ss)
        with == {k \in DOMAIN ss : k >= p.from /\ k # skip
                    /\ [subject |-> s, evid |-> p.evid] \in Manifest(ss[k])}
    IN  /\ es # <<>> /\ p.ok /\ with # {}
        /\ c = [state |-> p.state, owner |-> p.owner, first |-> p.first, count |-> p.count,
                evid |-> p.evid, sev |-> p.sev, disp |-> p.disp, resolved |-> p.resolved,
                review |-> p.review, ack |-> p.ack, verif |-> p.verif,
                last |-> Max(with), seen |-> ss[Max(with)].at]

Intact(s) == Verified(cases[s], s, events[s], scans, 0)

-----------------------------------------------------------------------------
(* Recording a scan.                                                       *)

ObservationEvent(type, k, f) ==
    [type |-> type, scan |-> k, at |-> clock, actor |-> None, disp |-> None,
     evid |-> f.evid, sev |-> f.sev, until |-> 0, contract |-> None]

Opened(k, f) ==
    [state |-> "open", owner |-> None, first |-> clock, count |-> 1, evid |-> f.evid,
     sev |-> f.sev, disp |-> None, resolved |-> 0, review |-> 0, ack |-> 0, verif |-> 0,
     last |-> k, seen |-> clock]

IsCorrected(c) == c.state = "resolved" /\ c.disp \in Corrected

(* An older boundary is refused, except for the one correction of scans    *)
(* that took their boundary from every response instead of the used ones.  *)
PolicyUpgrade(prior, p) == rule = "sec" /\ prior.policy = "v1" /\ p.policy = "v2"

Acceptable(c, s, p, ss) ==
    /\ p.boundary >= ss[c.last].boundary \/ PolicyUpgrade(ss[c.last], p)
    /\ IsCorrected(c) => p.boundary >= ss[c.verif].boundary
    /\ clock >= Last(events[s]).at

(* A correction that the finding's return does not touch (a fault).        *)
Unchanged_Fault(c, f) == c.evid = f.evid
Unchanged(c, f) == c.evid = f.evid /\ ~ IsCorrected(c)
Recurs(c) == c.state \in {"resolved", "deferred"}

Changed(c, k, f) ==
    [c EXCEPT !.sev = Max({@, f.sev}), !.evid = f.evid, !.count = @ + 1, !.seen = clock, !.last = k,
              !.state = IF Recurs(c) THEN "open" ELSE @,
              !.owner = IF Recurs(c) THEN None ELSE @,
              !.ack = IF Recurs(c) THEN 0 ELSE @,
              !.disp = None, !.resolved = 0, !.review = 0, !.verif = 0]

CaseAfter(s, k, f) ==
    IF s \notin DOMAIN cases THEN Opened(k, f)
    ELSE IF Unchanged(cases[s], f) THEN [cases[s] EXCEPT !.seen = clock, !.last = k]
    ELSE Changed(cases[s], k, f)

EventsAfter(s, k, f) ==
    IF s \notin DOMAIN cases THEN <<ObservationEvent("opened", k, f)>>
    ELSE IF Unchanged(cases[s], f) THEN events[s]
    ELSE Append(events[s], ObservationEvent(
                    IF Recurs(cases[s]) THEN "reopened" ELSE "evidence_changed", k, f))

(* Cases written without being replayed (a fault).                         *)
Reconciles_Fault(p) ==
    /\ p.boundary <= clock
    /\ \A f \in p.findings :
         f.subject \in DOMAIN cases => Acceptable(cases[f.subject], f.subject, p, scans)

(* Whether the transaction that records a scan runs to its end: any case   *)
(* that cannot take its finding withholds the whole scan.                  *)
Reconciles(p) ==
    LET ss == Append(scans, Stamped(p))
        k  == Len(ss)
    IN  /\ p.boundary <= clock
        /\ \A f \in p.findings :
             LET s == f.subject IN
             /\ s \in DOMAIN cases =>
                  /\ Verified(cases[s], s, events[s], ss, k)
                  /\ Acceptable(cases[s], s, p, scans)
             /\ Verified(CaseAfter(s, k, f), s, EventsAfter(s, k, f), ss, 0)

Known(p) == \E k \in DOMAIN scans : SameScan(scans[k], p)

-----------------------------------------------------------------------------
(* A scan of the older policy: its boundary was the newest response of all *)
Legacy ==
    LET p == Built(SecScan(world, 1), 1)
    IN  [p EXCEPT !.policy = "v1", !.boundary = 2, !.id.boundary = 2, !.at = 2]

(* It had found an issuer without facts.                                    *)
ASSUME LegacyAssumption ==
    "sec" \in Rules => /\ MaxClock >= 2
                      /\ SecScan(FirstWorld["sec"], 1).ok
                      /\ SecScan(FirstWorld["sec"], 1).findings # {}

Init ==
    /\ rule \in Rules
    /\ world = FirstWorld[rule]
    /\ pending = None /\ factors = [d \in {} |-> 0]
    /\ \/ /\ clock = 1
          /\ scans = <<>> /\ cases = [s \in {} |-> 0] /\ events = [s \in {} |-> <<>>]
       \/ /\ rule = "sec" /\ clock = 2
          /\ scans  = <<Legacy>>
          /\ cases  = [s \in {"issuer"} |-> Opened(1, Finding(Legacy, s))]
          /\ events = [s \in {"issuer"} |-> <<ObservationEvent("opened", 1, Finding(Legacy, s))>>]

(* A day passes.                                                           *)
Tick ==
    /\ clock < MaxClock
    /\ clock' = clock + 1
    /\ UNCHANGED <<rule, world, pending, scans, cases, events, factors>>

(* The host's clock is set back, never before the last response.           *)
SetBack ==
    /\ clock > Last(world.kept).at
    /\ clock' = clock - 1
    /\ UNCHANGED <<rule, world, pending, scans, cases, events, factors>>

(* A provider answers; the response is retained and the store follows it,  *)
(* unless it is an SEC answer without facts, which changes no row.         *)
Ingest ==
    /\ pending = None /\ Len(world.kept) < MaxKept
    /\ \E d \in Answers[rule] :
         world' = [data |-> IF rule = "sec" /\ d.rows = 0 THEN world.data ELSE d,
                   kept |-> Append(world.kept, [at |-> clock, data |-> d, intact |-> TRUE])]
    /\ UNCHANGED <<rule, clock, pending, scans, cases, events, factors>>

(* The store is edited by hand, or a retained response is damaged, which   *)
(* only the two rules that read responses back can see.                    *)
Edit ==
    /\ pending = None
    /\ \E d \in Edits[rule] : world' = [world EXCEPT !.data = d]
    /\ UNCHANGED <<rule, clock, pending, scans, cases, events, factors>>
Damage ==
    /\ pending = None /\ rule \in {"sec", "price"}
    /\ \E k \in DOMAIN world.kept :
         /\ world.kept[k].intact
         /\ world' = [world EXCEPT !.kept[k].intact = FALSE]
    /\ UNCHANGED <<rule, clock, pending, scans, cases, events, factors>>

(* anomaly-scan: the detector runs under the maintenance lock.             *)
Scan ==
    /\ pending = None
    /\ \E asof \in 1..clock :
         LET r == RunDetector(asof) IN
           r.ok /\ pending' = Built(r, asof)
    /\ UNCHANGED <<rule, world, clock, scans, cases, events, factors>>

(* The percentiles of a recorded day are kept once and never replaced.     *)
FactorsKept(p) ==
    IF rule # "factor" \/ p.asof \in DOMAIN factors THEN factors
    ELSE [d \in DOMAIN factors \cup {p.asof} |-> IF d = p.asof THEN p.id.extra ELSE factors[d]]

(* Recording it: all of it, or nothing.  The process may die before the    *)
(* snapshot of the percentiles is written.                                 *)
Record ==
    /\ pending # None /\ Len(scans) < MaxScans
    /\ \A f \in pending.findings :
         f.subject \in DOMAIN events => Len(events[f.subject]) < MaxEvents
    /\ ~ Known(pending) /\ Reconciles(pending)
    /\ LET k     == Len(scans) + 1
           found == {f.subject : f \in pending.findings}
       IN  /\ scans'  = Append(scans, Stamped(pending))
           /\ cases'  = [s \in DOMAIN cases \cup found |->
                           IF s \in found THEN CaseAfter(s, k, Finding(pending, s)) ELSE cases[s]]
           /\ events' = [s \in DOMAIN events \cup found |->
                           IF s \in found THEN EventsAfter(s, k, Finding(pending, s)) ELSE events[s]]
    /\ factors' \in {factors, FactorsKept(pending)}
    /\ pending' = None
    /\ UNCHANGED <<rule, world, clock>>

(* Recorded once more, a scan changes nothing, but the snapshot it missed. *)
Repeat ==
    /\ pending # None
    /\ \E k \in DOMAIN scans : SamePayload(scans[k], pending)
    /\ \A f \in pending.findings : Verified(cases[f.subject], f.subject, events[f.subject], scans, 0)
    /\ factors' = FactorsKept(pending)
    /\ pending' = None
    /\ UNCHANGED <<rule, world, clock, scans, cases, events>>

(* A preview, a scan the ledger refuses, or a crash before its record.     *)
Discard ==
    /\ pending # None
    /\ pending' = None
    /\ UNCHANGED <<rule, world, clock, scans, cases, events, factors>>

-----------------------------------------------------------------------------
(* The operator's commands.  He names the evidence he has read, which must *)
(* still be the current one.                                               *)

Read(s) == {events[s][i].evid : i \in DOMAIN events[s]}
StillCurrent(s, evid) == cases[s].evid = evid
InTime(s) == clock >= Last(events[s]).at

Decision(type, who, disp, k, evid, until, contract) ==
    [type |-> type, scan |-> k, at |-> clock, actor |-> who, disp |-> disp,
     evid |-> evid, sev |-> 0, until |-> until, contract |-> contract]

Decided(s, c, e) ==
    /\ Verified(c, s, Append(events[s], e), scans, 0)
    /\ cases' = [cases EXCEPT ![s] = c]
    /\ events' = [events EXCEPT ![s] = Append(@, e)]
    /\ UNCHANGED <<rule, world, clock, pending, scans, factors>>

Acknowledge(s, who, evid) ==
    /\ StillCurrent(s, evid)
    /\ InTime(s)
    /\ cases[s].state = "open"
    /\ Decided(s, [cases[s] EXCEPT !.state = "acknowledged", !.owner = who, !.ack = clock],
               Decision("acknowledged", who, None, 0, evid, 0, None))

Defer(s, who, evid, until) ==
    /\ StillCurrent(s, evid)
    /\ InTime(s)
    /\ cases[s].state # "resolved" /\ until > clock
    /\ Decided(s, [cases[s] EXCEPT !.state = "deferred", !.owner = who, !.disp = "deferred",
                                   !.resolved = 0, !.review = until, !.verif = 0],
               Decision("deferred", who, "deferred", 0, evid, until, None))

(* What a scan must show to clear a finding: recorded later, from another  *)
(* and not older boundary, and without the finding.                        *)
Clears(k, c, s) ==
    /\ k > c.last
    /\ scans[k].id # scans[c.last].id
    /\ scans[k].boundary >= scans[c.last].boundary
    /\ scans[k].at >= c.seen /\ clock >= scans[k].at
    /\ ~ Finds(scans[k], s)

(* A correction that needs no proof (a fault).                             *)
Proves_Fault(k, c, s) == rule \in {"sec", "price"}

(* A correction also needs a proof, which two rules can give; a price must *)
(* come from a response received after the finding.                        *)
Proves(k, c, s) ==
    /\ rule \in {"sec", "price"}
    /\ s \in DOMAIN scans[k].proofs
    /\ rule = "price" => scans[k].proofs[s].at > scans[c.last].boundary

Resolve(s, who, evid, disp, k) ==
    LET c        == cases[s]
        contract == IF disp = "accepted" /\ NeedsContract(c) THEN Contract(c, scans) ELSE None
    IN  /\ StillCurrent(s, evid)
        /\ InTime(s)
        /\ c.state # "resolved"
        /\ IF k = 0 THEN disp \notin Corrected ELSE Clears(k, c, s)
        /\ disp \in Corrected => Proves(k, c, s)
        /\ (disp = "accepted" /\ NeedsContract(c)) => contract # None
        /\ Decided(s, [c EXCEPT !.state = "resolved", !.owner = who, !.disp = disp,
                                !.resolved = clock, !.review = 0, !.verif = k],
                   Decision("resolved", who, disp, k, evid, 0, contract))

Review ==
    \E s \in DOMAIN cases, who \in Owners : \E evid \in Read(s) :
        /\ Intact(s) /\ Len(events[s]) < MaxEvents
        /\ \/ Acknowledge(s, who, evid)
           \/ Defer(s, who, evid, clock + 1)
           \/ \E disp \in Verdicts, k \in 0..Len(scans) : Resolve(s, who, evid, disp, k)

Next == \/ Tick \/ SetBack \/ Ingest \/ Edit \/ Damage 
        \/ Scan \/ Record \/ Repeat \/ Discard \/ Review

Spec == Init /\ [][Next]_vars

-----------------------------------------------------------------------------
(* What a finding about some content can be about.                         *)
SubjectsIn(r, d) ==
    CASE r = "sec"      -> {"issuer"}
      [] r = "price"    -> DOMAIN d
      [] r = "coverage" -> Metrics
      [] r = "mapping"  -> {<<m.security, m.provider>> : m \in d} \cup {<<m.provider, m.symbol>> : m \in d}
      [] r = "shares"   -> {<<"inter", x.filed>> : x \in d} \cup {<<"invalid", x.period, x.filed>> : x \in d}
                             \cup {<<"intra", y.filed, y.period,
                                     [period |-> x.period, filed |-> x.filed, value |-> x.value]>> : x, y \in d}
      [] r = "filings"  -> {Key(x) : x \in d}
      [] r = "factor"   -> DOMAIN d
Subjects == UNION {SubjectsIn(rule, d) : d \in Contents(rule)}

(* Every column has its type, and an event is never without its case.      *)
TypeOK ==
    /\ rule \in Rules /\ clock \in 1..MaxClock
    /\ DOMAIN cases = DOMAIN events /\ DOMAIN cases \subseteq Subjects
    /\ DOMAIN factors \subseteq 1..MaxClock
    /\ \A s \in DOMAIN cases :
         /\ cases[s].state \in {"open", "acknowledged", "deferred", "resolved"}
         /\ cases[s].owner \in Owners \cup {None}
         /\ cases[s].disp \in Outcomes \cup {"deferred", None}
         /\ cases[s].last \in DOMAIN scans /\ cases[s].verif \in 0..Len(scans)
         /\ events[s][1].type = "opened"

(* Every case replays from its events after any sequence of scans and      *)
(* decisions: a row that does not withholds the whole review queue, for    *)
(* every command verifies every case first (alerts.py:2033).               *)
CaseReplays == \A s \in DOMAIN cases : Intact(s)

(* A case stands corrected only while no scan since its verification found *)
(* it again, and only when a response retained after the finding says so,  *)
(* for a price together with one that holds the session before: an edit of *)
(* the store by hand clears nothing (alerts.py:2393).                      *)
CorrectionHolds ==
    \A s \in DOMAIN cases : IsCorrected(cases[s]) =>
        LET c == cases[s] IN
        /\ \A k \in c.verif..Len(scans) : ~ Finds(scans[k], s)
        /\ \E k \in DOMAIN world.kept :
             /\ world.kept[k].at \in scans[c.last].boundary..scans[c.verif].boundary
                  \/ scans[c.last].policy = "v1"
             /\ IF rule = "sec" THEN world.kept[k].data.rows > 0
                ELSE \E j \in DOMAIN world.kept :
                       /\ world.kept[j].at <= scans[c.verif].boundary
                       /\ ~ UnexplainedMove(world.kept[j].data[s - 1], world.kept[k].data[s])

(* What the newest scan found is on the queue, or was decided by a person  *)
(* who had read exactly this evidence and did not call it corrected.       *)
NothingHidden ==
    scans # <<>> =>
    \A f \in Last(scans).findings :
        /\ f.subject \in DOMAIN cases /\ cases[f.subject].evid = f.evid
        /\ cases[f.subject].state = "resolved" =>
             /\ Last(events[f.subject]).evid = f.evid
             /\ Last(events[f.subject]).actor # None
             /\ ~ IsCorrected(cases[f.subject])

(* "Repeated identical scans are idempotent" (ARCHITECTURE.md:294): a scan *)
(* with the identity of a recorded one has its payload.                    *)
RescanIdempotent ==
    pending # None =>
    \A k \in DOMAIN scans : SameScan(scans[k], pending) => SamePayload(scans[k], pending)

(* "later recurrence with changed evidence can reopen a resolved case"     *)
(* (ARCHITECTURE.md:295): a newer scan is not refused for what was decided *)
(* before.                                                                 *)
RecurrenceReopens ==
    pending # None /\ ~ Known(pending) =>
    \A f \in pending.findings :
        LET s == f.subject  k == Len(scans) + 1  ss == Append(scans, Stamped(pending)) IN
        s \in DOMAIN cases /\ Acceptable(cases[s], s, pending, scans)
          => Verified(CaseAfter(s, k, f), s, EventsAfter(s, k, f), ss, 0)

(* Every column has its type and every case replays from its events        *)
(* (_verify_case, alerts.py:2033).                                         *)
QueueInv == TypeOK /\ CaseReplays

=============================================================================
