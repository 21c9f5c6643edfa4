------------------------------ MODULE IssuerFacts ------------------------------
(***************************************************************************)
(* The fundamental facts of reviewed issuers, from a captured SEC response *)
(* to the point-in-time reads (src/src/aios/ingest/edgar.py, the           *)
(* fundamentals part of storage/store.py, raw_snapshots.py,                *)
(* companyfacts_replay.py, companyfacts_v3_activation.py and               *)
(* companyfacts_v4_activation.py).                                         *)
(*                                                                         *)
(* A refresh captures a response as immutable evidence, parses it under    *)
(* the v2 contract and publishes the issuer's relation in one transaction. *)
(* A governed activation replays reviewed evidence under v3 or v4 and      *)
(* replaces the relations of its issuers in one transaction.  Every change *)
(* of the relation appends to a version log, and a named generation is a   *)
(* position of that log.                                                   *)
(*                                                                         *)
(* The embedded database has one writer: nothing else opens it while a     *)
(* refresh has it open, but between the last check of an activation and    *)
(* its transaction the database is closed.                                 *)
(***************************************************************************)
EXTENDS FactorReads

CONSTANTS
  Issuers,        \* reviewed issuers
  Ticker,         \* issuer -> canonical ticker; two issuers may share one
  Cohort,         \* issuer -> revenue cohort of its CIK
  Security,       \* issuer -> its one assigned security, or NoSecurity
  Feed,           \* issuer -> the responses the SEC gives for it, in order
  Legacy,         \* key -> stored row, from before issuers were reviewed
  NoIssuer, NoSecurity,
  Truth,          \* issuer -> period end -> revenue of that quarter
  ReadDays,       \* bound: the days a decision reads on
  LastDay,        \* bound: days
  MaxFaults,      \* bound: crashes and failed requests
  MaxRuns,        \* bound: issuer -> refreshes
  MaxGenerations, \* bound: generations captured outside an activation
  MaxPlans        \* bound: activation plans

\* The stored rows are under their keys, and no issuer was reviewed.
ASSUME FactsAssumption ==
  /\ IsFiniteSet(Issuers) /\ NoIssuer \notin Issuers
  /\ LastDay \in Nat \ {0} /\ MaxFaults \in Nat
  /\ Legacy = [k \in DOMAIN Legacy |-> Legacy[k]]
  /\ \A k \in DOMAIN Legacy :
       /\ Legacy[k].issuer = NoIssuer
       /\ k = <<k[1], Legacy[k].row.end, Legacy[k].row.filed, Legacy[k].row.metric>>

VARIABLES
  day,
  runs,           \* refreshes with a captured response, in order of capture
  facts,          \* table fundamentals: key -> row
  versions,       \* table fundamental_versions: what each write put and deleted
  generations,    \* the named boundaries, and the facts at their capture
  plans,          \* published activation plans
  accepted,       \* receipts: the plans activated
  ingest,         \* the refresh that holds the database, 0 for none
  faults,         \* crashes and failed requests so far
  checked         \* the plan an activation has just checked, 0 for none
factsVars == <<day, runs, facts, versions, generations, plans, accepted,
          ingest, faults, checked>>

\* What each response says under each contract.
Parsed == [i \in Issuers |-> [n \in DOMAIN Feed[i] |->
            [v \in Parsers |-> Parse(v, Cohort[i], Feed[i][n])]]]
Replay(v, r) == Parsed[runs[r].issuer][runs[r].response][v]

Key(i, row) == <<Ticker[i], row.end, row.filed, row.metric>>
ByKey(i, rows) == [k \in {Key(i, r) : r \in rows} |-> CHOOSE r \in rows : Key(i, r) = k]
KeysOf(rel, i) == {k \in DOMAIN rel : rel[k].issuer = i}
LiveRelation(rel, i) == {Economics(rel[k].row) : k \in KeysOf(rel, i)}

Run(kind, n) == <<kind, n>>
Stored(i, security, run, snapshot, parser, row) ==
  [issuer |-> i, security |-> security, run |-> run, snapshot |-> snapshot,
   parser |-> parser, row |-> row]

(***************************************************************************)
(* The table and its version log, changed together.                        *)
(***************************************************************************)
Table == [facts |-> facts, versions |-> versions]

\* What is put under a key replaces what was there.
Over(new, old) ==
  [k \in DOMAIN new \cup DOMAIN old |-> IF k \in DOMAIN new THEN new[k] ELSE old[k]]

\* upsert_fundamentals: an omitted security keeps the stored one, and what is
\* logged is the row as merged.
Merged(t, k, row) ==
  IF row.security = NoSecurity /\ k \in DOMAIN t.facts
  THEN [row EXCEPT !.security = t.facts[k].security] ELSE row
\* (a fault) The row is logged as it came, not as it was merged.
Upsert_Fault(t, incoming) ==
  [facts |-> Over([k \in DOMAIN incoming |-> Merged(t, k, incoming[k])], t.facts),
   versions |-> Append(t.versions, [put |-> incoming, gone |-> {}])]
Upsert(t, incoming) ==
  LET new == [k \in DOMAIN incoming |-> Merged(t, k, incoming[k])] IN
  [facts |-> Over(new, t.facts), versions |-> Append(t.versions, [put |-> new, gone |-> {}])]
Delete(t, keys) ==
  [facts |-> Restrict(t.facts, DOMAIN t.facts \ keys),
   versions |-> Append(t.versions, [put |-> << >>, gone |-> keys])]
Write(t) == facts' = t.facts /\ versions' = t.versions

\* _fundamental_evidence_relation: the last version of each key up to a boundary.
AsRead(log, boundary) ==
  LET Names(n) == DOMAIN log[n].put \cup log[n].gone
      last(k) == Max({n \in 1..boundary : k \in Names(n)})
      keys == UNION {Names(n) : n \in 1..boundary}
  IN [k \in {q \in keys : q \notin log[last(q)].gone} |-> log[last(k)].put[k]]

Generation(rel, log) == [boundary |-> Len(log), seen |-> rel]

LegacyEbitda == {k \in DOMAIN facts : k[4] = "ebitda"}
InvalidPeriods == {k \in DOMAIN facts : ~ (k[2] <= k[3])}

\* Bounds, not guards of the code: legacy rows are repaired before the second
\* refresh and the first plan, a generation is captured before a plan (each
\* activation captures one itself), and a day only ends while a plan is open.
Repaired == LegacyEbitda \cup InvalidPeriods = {}
RepairsFirst == plans = <<>> /\ Len(runs) <= 1
CaptureFirst == RepairsFirst /\ Len(runs) = 1 /\ facts # Legacy
Planned == plans # <<>> /\ accepted # DOMAIN plans

(***************************************************************************)
(* Refresh: capture, parse, publish.                                       *)
(***************************************************************************)
Free == ingest = 0
NoRun == [issuer |-> NoIssuer, response |-> 0, day |-> 0, parsed |-> FALSE, outcome |-> "none"]

\* The response reaches the raw archive before anything is parsed; the SEC may
\* have published a later one since the last refresh.  (A fetch that fails
\* leaves only a failed outcome that no later step reads.)
Observation(i, n) == [NoRun EXCEPT !.issuer = i, !.response = n, !.day = day]
Capture(i, n) ==
  /\ Free /\ Cardinality({r \in DOMAIN runs : runs[r].issuer = i}) < MaxRuns[i]
  /\ runs # <<>> => Repaired
  /\ \A r \in DOMAIN runs : runs[r].issuer = i => runs[r].response <= n
  /\ runs' = Append(runs, Observation(i, n))
  /\ ingest' = Len(runs) + 1
  /\ UNCHANGED <<day, facts, versions, generations, plans, accepted, faults, checked>>

\* attach_parsed_rows_evidence: what the parser made of it, kept with it.
Promoted(r) == ~ runs[r].parsed /\ Replay("v2s2", r).ok
Attach ==
  /\ ~ Free /\ Promoted(ingest)
  /\ runs' = [runs EXCEPT ![ingest].parsed = TRUE]
  /\ UNCHANGED <<day, facts, versions, generations, plans, accepted, ingest, faults, checked>>

IncomingAs(i, r, rows) ==
  [k \in DOMAIN rows |-> Stored(i, Security[i], Run("ingest", r), r, "v2s2", rows[k])]
Incoming(r) == IncomingAs(runs[r].issuer, r, ByKey(runs[r].issuer, Replay("v2s2", r).rows))

\* _validate_issuer_ingest_source_lineage: every row comes from the one response
\* of this run, all of that response's rows come, under the assigned security.
Cited(r, rows) ==
  /\ runs[r].parsed
  /\ {rows[k].row : k \in DOMAIN rows} = Replay("v2s2", r).rows
  /\ \A k \in DOMAIN rows : /\ rows[k].run = Run("ingest", r) /\ rows[k].snapshot = r
                            /\ rows[k].security = Security[runs[r].issuer]

\* _refresh_issuer_fundamentals_in_transaction: no key of another issuer, and
\* no key of this issuer left out.
Collides(i, keys) == \E k \in keys \cap DOMAIN facts : facts[k].issuer \notin {i, NoIssuer}
Shrinks(i, keys) == KeysOf(facts, i) \ keys # {}
\* (a fault) A response that leaves out stored keys is published.
Publishable_Fault(r, rows) == Cited(r, rows) /\ ~ Collides(runs[r].issuer, DOMAIN rows)
Publishable(r, rows) ==
  /\ Cited(r, rows)
  /\ \/ DOMAIN rows = {}
     \/ ~ Collides(runs[r].issuer, DOMAIN rows) /\ ~ Shrinks(runs[r].issuer, DOMAIN rows)
Outcome(parsed) == IF parsed.rejected = 0 /\ parsed.rows # {} THEN "success" ELSE "warning"

Recorded(outcome) == runs' = [runs EXCEPT ![ingest].outcome = outcome]

Commit ==
  /\ ~ Free
  /\ \E rows \in {Incoming(ingest)} : Publishable(ingest, rows) /\ Write(Upsert(Table, rows))
  /\ Recorded(Outcome(Replay("v2s2", ingest)))
  /\ ingest' = 0
  /\ UNCHANGED <<day, generations, plans, accepted, faults, checked>>

\* Refused or unparsable, or the request for the submissions failed: the
\* outcome is recorded on its own, nothing else is.
Refused(r) == ~ Replay("v2s2", r).ok \/ (runs[r].parsed /\ ~ Publishable(r, Incoming(r)))
FailIngest ==
  /\ ~ Free
  /\ \/ Refused(ingest) /\ UNCHANGED faults
     \/ /\ runs[ingest].parsed /\ faults < MaxFaults /\ faults' = faults + 1
  /\ Recorded("failed")
  /\ ingest' = 0
  /\ UNCHANGED <<day, facts, versions, generations, plans, accepted, checked>>

ProcessCrash ==
  /\ ~ Free \/ checked # 0
  /\ faults < MaxFaults /\ faults' = faults + 1
  /\ ingest' = 0 /\ checked' = 0
  /\ UNCHANGED <<day, runs, facts, versions, generations, plans, accepted>>

(***************************************************************************)
(* Repairs of legacy rows and named generations.                           *)
(***************************************************************************)
PurgeEbitda ==
  LET keys == LegacyEbitda IN
  /\ Free /\ keys # {} /\ RepairsFirst
  /\ Write(Delete(Table, keys))
  /\ UNCHANGED <<day, runs, generations, plans, accepted, ingest, faults, checked>>

QuarantineInvalidPeriods ==
  LET keys == InvalidPeriods IN
  /\ Free /\ keys # {} /\ RepairsFirst
  /\ Write(Delete(Table, keys))
  /\ UNCHANGED <<day, runs, generations, plans, accepted, ingest, faults, checked>>

CaptureGeneration ==
  /\ Free /\ Len(generations) < MaxGenerations /\ CaptureFirst
  /\ \A g \in DOMAIN generations : generations[g].boundary < Len(versions)
  /\ generations' = Append(generations, Generation(facts, versions))
  /\ UNCHANGED <<day, runs, facts, versions, plans, accepted, ingest, faults, checked>>

(***************************************************************************)
(* Governed activation of a stricter contract.                             *)
(***************************************************************************)
Source(target) == IF target = "v3" THEN "v2s2" ELSE "v3"

\* scoped_source_evidence: the newest captured response with an outcome,
\* received by the day of the decision, whatever that outcome was.
Observed(i, asof) ==
  {r \in DOMAIN runs : runs[r].issuer = i /\ runs[r].outcome # "none" /\ runs[r].day <= asof}
Newest(i, asof) == Max(Observed(i, asof))
Unscoped == {r \in DOMAIN runs : runs[r].outcome = "none"}
Late(scope, asof) == {r \in DOMAIN runs : runs[r].issuer \in scope /\ runs[r].day > asof}

\* _source_gate_reasons and the replay checks, of the response under v2 and v3.
Sound(r, v2, v3) ==
  /\ runs[r].outcome \in {"success", "warning"} /\ runs[r].parsed
  /\ v2.rows # {} /\ v3.ok

\* _current_lineage_matches, and _lineage_matches_v3 with the receipts of v3.
LiveRows(i) == {facts[k] : k \in KeysOf(facts, i)}
CitesV2(s, r, v2) == /\ s.run = Run("ingest", r) /\ s.snapshot = r /\ s.parser = "v2s2"
                     /\ s.row \in v2.rows
Receipts(i) == {n \in accepted : plans[n].target = "v3" /\ i \in plans[n].issuers}
CitesV3(s, i, r, v3) == /\ s.snapshot = r /\ s.parser = "v3"
                        /\ s.run \in {Run("activation", n) : n \in Receipts(i)}
                        /\ s.row \in v3.rows
StillV2(s, r, v2, v3) == CitesV2(s, r, v2) /\ Economics(s.row) \in Relation(v3.rows)

\* _classify_issuer: the stored relation is the newest response under v2, and
\* every row cites it.
ClassifiedV3(i, r, v2, v3) ==
  /\ Sound(r, v2, v3)
  /\ LiveRelation(facts, i) = Relation(v2.rows)
  /\ \A s \in LiveRows(i) : CitesV2(s, r, v2)

\* _review_issuer: the stored relation is the newest response under v3, by an
\* accepted activation; a row that v3 did not change may still cite v2.
ClassifiedV4(i, r, v2, v3) ==
  /\ Sound(r, v2, v3)
  /\ LiveRelation(facts, i) = Relation(v3.rows)
  /\ Receipts(i) # {}
  /\ \A s \in LiveRows(i) : CitesV3(s, i, r, v3) \/ StillV2(s, r, v2, v3)

Classified(i, r, v2, v3, target) ==
  IF target = "v3" THEN ClassifiedV3(i, r, v2, v3) ELSE ClassifiedV4(i, r, v2, v3)
Classify(i, r, target) == Classified(i, r, Replay("v2s2", r), Replay("v3", r), target)
Eligible(i, target, asof) == Observed(i, asof) # {} /\ Classify(i, Newest(i, asof), target)

\* The content of a review that its hash covers, beside what eligibility fixes.
ReviewV3(scope, asof) == [evidence |-> [i \in scope |-> Newest(i, asof)],
                          other |-> Unscoped \cup Late(scope, asof)]
ReviewV4(scope, asof) == [evidence |-> [i \in scope |-> Newest(i, asof)],
                          other |-> UNION {Receipts(i) : i \in scope}]
Review(scope, target, asof) ==
  IF target = "v3" THEN ReviewV3(scope, asof) ELSE ReviewV4(scope, asof)

\* What the plan file carries; the backup is taken between review and plan.
\* (One plan is open at a time: a bound, not a guard.)
Plan(scope, target) ==
  [issuers |-> scope, target |-> target, asof |-> day, review |-> Review(scope, target, day),
   backup |-> facts, after |-> [i \in scope |-> Replay(target, Newest(i, day)).rows]]
Publish(scope, target) ==
  /\ Free /\ checked = 0 /\ Len(plans) < MaxPlans /\ accepted = DOMAIN plans /\ Repaired
  /\ plans' = Append(plans, Plan(scope, target))
  /\ UNCHANGED <<day, runs, facts, versions, generations, accepted, ingest, faults, checked>>
PrepareV3(scope) == (\A i \in scope : Eligible(i, "v3", day)) /\ Publish(scope, "v3")
PrepareV4(scope) == (\A i \in scope : Eligible(i, "v4", day)) /\ Publish(scope, "v4")

CurrentV3(p) == p.target = "v3" /\ ReviewV3(p.issuers, p.asof) = p.review
CurrentV4(p) == p.target = "v4" /\ ReviewV4(p.issuers, p.asof) = p.review
Current(p) == /\ \A i \in p.issuers : Eligible(i, p.target, p.asof)
              /\ CurrentV3(p) \/ CurrentV4(p)

\* What the transaction leaves must be what the plan said, and the relation
\* read back must be the replay.
Verified(t, n, i, parsed, after) ==
  [facts |-> after.facts, versions |-> after.versions,
   ok |-> /\ t.ok /\ parsed.ok /\ parsed.rows = plans[n].after[i]
          /\ LiveRelation(after.facts, i) = Relation(parsed.rows)]
Concluded(t, n, i, parsed, gone, written) ==
  Verified(t, n, i, parsed, Delete(written, gone \cap KeysOf(written.facts, i)))

\* (a fault) Keys of another issuer are taken over.
Replaced_Fault(t, n, i, r, parsed, source, target) ==
  LET new == {k \in DOMAIN target : k \notin DOMAIN source
                \/ Economics(source[k]) # Economics(target[k])}
      gone == DOMAIN source \ DOMAIN target
  IN Concluded(t, n, i, parsed, gone,
       Upsert(t, [k \in new |-> Stored(i, NoSecurity, Run("activation", n), r,
                                       plans[n].target, target[k])]))

\* One issuer of the transaction: t is the table after the issuers before it,
\* source and target are the rows of the contract in force and of the new one.
Replaced(t, n, i, r, parsed, source, target) ==
  LET new == {k \in DOMAIN target : k \notin DOMAIN source
                \/ Economics(source[k]) # Economics(target[k])}
      gone == DOMAIN source \ DOMAIN target
      others == {k \in DOMAIN t.facts : t.facts[k].issuer \notin {i, NoIssuer}}
  IN IF (new \cup gone) \cap others # {} THEN [t EXCEPT !.ok = FALSE]
     ELSE Concluded(t, n, i, parsed, gone,
            Upsert(t, [k \in new |-> Stored(i, NoSecurity, Run("activation", n), r,
                                            plans[n].target, target[k])]))

ReplacedBy(t, n, i, r, old, new) ==
  Replaced(t, n, i, r, new, ByKey(i, old.rows), ByKey(i, new.rows))
Activated(t, n, i, r) ==
  ReplacedBy(t, n, i, r, Replay(Source(plans[n].target), r), Replay(plans[n].target, r))

Transaction(table, n) ==
  FoldSet(LAMBDA i, t : Activated(t, n, i, Newest(i, plans[n].asof)),
          [facts |-> table, versions |-> versions, ok |-> TRUE], plans[n].issuers)

\* The rehearsal on a copy of the backup, between two looks at the live state.
Rehearsed(n) == Transaction(plans[n].backup, n).ok
Check(n) ==
  /\ Free /\ checked = 0 /\ n \notin accepted
  /\ Current(plans[n]) /\ Rehearsed(n)
  /\ checked' = n
  /\ UNCHANGED <<day, runs, facts, versions, generations, plans, accepted, ingest, faults>>

Activate(n) ==
  /\ Free /\ checked = n /\ checked' = 0
  /\ \E t \in {Transaction(facts, n)} :
     \/ /\ t.ok
        /\ Write(t)
        /\ generations' = Append(generations, Generation(t.facts, t.versions))
        /\ accepted' = accepted \cup {n}
     \/ /\ ~ t.ok
        /\ UNCHANGED <<facts, versions, generations, accepted>>
  /\ UNCHANGED <<day, runs, plans, ingest, faults>>

(***************************************************************************)
(* The world outside.                                                      *)
(***************************************************************************)
NextDay ==
  /\ day < LastDay /\ Free /\ Planned /\ day' = day + 1
  /\ UNCHANGED <<runs, facts, versions, generations, plans, accepted, ingest, faults, checked>>

\* Reopening the database seeds one version for every row it already holds.
FactsInit ==
  /\ day = 1 /\ runs = <<>>
  /\ facts = Legacy
  /\ versions = <<[put |-> Legacy, gone |-> {}]>>
  /\ generations = <<>> /\ plans = <<>> /\ accepted = {} /\ ingest = 0 /\ faults = 0 /\ checked = 0

FactsNext ==
  \/ \E i \in Issuers : \E n \in DOMAIN Feed[i] : Capture(i, n)
  \/ Attach \/ Commit \/ FailIngest \/ ProcessCrash
  \/ PurgeEbitda \/ QuarantineInvalidPeriods \/ CaptureGeneration
  \/ \E scope \in SUBSET Issuers \ {{}} : PrepareV3(scope) \/ PrepareV4(scope)
  \/ \E n \in DOMAIN plans : Check(n) \/ Activate(n)
  \/ NextDay

FactsSpec == FactsInit /\ [][FactsNext]_factsVars

(***************************************************************************)
(* What a trailing year depends on: the figures.  A quarter is 10 days and *)
(* a fiscal year 40.  A label names the period of the report that carries  *)
(* the row, so the same quarter of the year before, which a report repeats *)
(* beside its own, stands under a label that is not its own; so may any    *)
(* other row.  Only the figures are true: the single period of a quarterly *)
(* row is the revenue of the quarter that ends there, and an annual row    *)
(* under the label of its own year is the revenue of that year.            *)
(***************************************************************************)
EndOf(y, n) == 40 * y - 40 + 10 * n
LabelEnd(h) == EndOf(h.period[2], IF Annual(h) THEN 4 ELSE Number(h))
Labelled(h) == Quarterly(h) \/ (Annual(h) /\ h.period[2] # None)
OwnLabel(h) == Labelled(h) /\ h.end = LabelEnd(h)

YearEnds(end) == {end - 30, end - 20, end - 10, end}
Revenue(i, ends) == MapThenSumSet(LAMBDA e : Truth[i][e], ends)
TrueFigure(i, r) ==
  /\ r.filed \in Int /\ r.end \in DOMAIN Truth[i]
  /\ Labelled(r) => r.period[2] \in Int
  /\ ~ Annual(r) => r.quarter = Truth[i][r.end]
  /\ (Annual(r) /\ OwnLabel(r)) => /\ YearEnds(r.end) \subseteq DOMAIN Truth[i]
                                   /\ r.quarter = Revenue(i, YearEnds(r.end))
TrueFigures ==
  /\ Issuers \cap {"unreviewed", "gap", "ambiguous"} = {}
  /\ \A i \in Issuers :
       /\ IsFiniteSet(DOMAIN Truth[i]) /\ Truth[i] \in [DOMAIN Truth[i] -> Int]
       /\ \A e \in DOMAIN Truth[i] : e \in Int /\ e % 10 = 0
       /\ \A n \in DOMAIN Feed[i], v \in Parsers : \A r \in Parsed[i][n][v].rows :
            r.metric = "revenue" /\ r.quarter # None => TrueFigure(i, r)

\* The rows that a trailing year adds, and the ones it subtracts.
Added(hist) == IF Annuals(hist) = {} THEN LastFour(hist)
               ELSE {LastAnnual(hist)} \cup AfterAnnual(hist)
Subtracted(hist) == IF Annuals(hist) = {} THEN {} ELSE PriorYear(hist)

(***************************************************************************)
(* Properties.                                                             *)
(***************************************************************************)
\* Every variable stays in its domain, and every stored row is under its key.
FactsTypeOK ==
  /\ day \in 1..LastDay 
  /\ \A r \in DOMAIN runs : /\ runs[r].issuer \in Issuers /\ runs[r].parsed \in BOOLEAN
                            /\ runs[r].outcome \in {"none", "success", "warning", "failed"}
  /\ \A k \in DOMAIN facts : k = <<k[1], facts[k].row.end, facts[k].row.filed, facts[k].row.metric>>
  /\ \A g \in DOMAIN generations : generations[g].boundary \in 0..Len(versions)
  /\ accepted \subseteq DOMAIN plans /\ ingest \in 0..Len(runs) /\ faults \in 0..MaxFaults /\ checked \in 0..Len(plans)

\* An issuer's stored facts are what one of its accepted responses says under
\* one contract, whole: never the union of two responses, never a part of one,
\* never another issuer's; and every row replays from the response it cites.
\* (store.py:2931 refuses to shrink or to take over keys, and a crash between
\* capture, parse and publication leaves nothing.)
WholeRelation ==
  \A i \in Issuers :
    /\ LiveRelation(facts, i) # {} =>
         \E r \in DOMAIN runs, v \in {"v2s2", "v3", "v4"} :
           /\ runs[r].issuer = i /\ runs[r].parsed
           /\ LiveRelation(facts, i) = Relation(Parsed[i][runs[r].response][v].rows)
    /\ \A s \in LiveRows(i) :
         /\ s.snapshot \in DOMAIN runs /\ runs[s.snapshot].issuer = i
         /\ s.row \in Parsed[i][runs[s.snapshot].response][s.parser].rows

\* A named generation reads for ever what the facts were at its capture, to
\* the citation and the security, whatever is refreshed, activated, purged or
\* quarantined after it (store.py:5606).
GenerationsFrozen ==
  \A g \in DOMAIN generations :
    AsRead(versions, generations[g].boundary) = generations[g].seen

\* A receipt appears only together with the whole change it stands for: every
\* issuer of the plan then holds exactly what the reviewed evidence says under
\* the stricter contract, and no row of any other issuer is touched, though
\* they may share its ticker (companyfacts_v3_activation.py:273).
ActivationExact ==
  [][\A n \in accepted' \ accepted :
       /\ \A i \in plans[n].issuers :
            LiveRelation(facts', i) = Relation(Parsed[i][runs[plans[n].review.evidence[i]].response]
                                             [plans[n].target].rows)
       /\ \A k \in DOMAIN facts : facts[k].issuer \notin plans[n].issuers \cup {NoIssuer}
                                  => k \in DOMAIN facts' /\ facts'[k] = facts[k]]_factsVars

\* Whenever a decision reads a trailing year of revenue whose added rows are
\* under their own labels, it is the sum of the four quarters that end at the
\* last period it knows, but for one thing: where the row it subtracts is one a
\* report repeated from the year before, it subtracts that row's own quarter in
\* place of the one of the label, and no other quarter is wrong, counted twice
\* or left out.  With no repeated row it is exactly the trailing year.  A
\* context the parsers withheld, a label out of order or two rows under one
\* label make it unknown (factors/common.py:284 and :329).
TrailingYearTrue ==
  \A t \in {h.ticker : h \in TickerHistory}, d \in ReadDays :
    \A hist \in {History(facts, t, d, "revenue"), FundamentalHistory(facts, t, d, "revenue")} :
      LET owner == OwnerOn(t, d)
          end == Max({h.end : h \in hist})
          repeated == {g \in Subtracted(hist) : ~ OwnLabel(g)}
      IN (owner \in Issuers /\ TrailingYear(hist) # None /\ \A h \in Added(hist) : OwnLabel(h)) =>
           TrailingYear(hist) + Total(repeated) =
             Revenue(owner, {e \in DOMAIN Truth[owner] : end - 40 < e /\ e <= end})
               + Revenue(owner, {LabelEnd(g) : g \in repeated})

\* (a claim that does not hold) The quarter subtracted is the one of its label:
\* "Q1 in the new fiscal year subtracts Q1 from the annual fiscal year"
\* (factors/common.py:267).
QuarterIdentity ==
  \A t \in {h.ticker : h \in TickerHistory}, d \in ReadDays :
    \A hist \in {History(facts, t, d, "revenue"), FundamentalHistory(facts, t, d, "revenue")} :
      TrailingYear(hist) # None => \A g \in Subtracted(hist) : OwnLabel(g)

\* Every row is stored under its key, and an issuer's facts are one response,
\* whole (upsert_fundamentals_pit).
FactsInv == FactsTypeOK /\ WholeRelation

================================================================================
