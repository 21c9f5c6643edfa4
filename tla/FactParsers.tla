------------------------------ MODULE FactParsers ------------------------------
(***************************************************************************)
(* The parsers of one issuer's SEC Company Facts response                  *)
(* (src/src/aios/ingest/edgar.py): the contract the ordinary refresh runs  *)
(* (v2s2: us-gaap only, the first row of a storage key wins), its          *)
(* predecessor (v2s1: a contradicted key is withheld), v3 (exact contexts, *)
(* units and taxonomies, contradictions withheld) and v4 (v3 with reviewed *)
(* revenue concepts by cohort).                                            *)
(*                                                                         *)
(* A response is a sequence of provider rows                               *)
(*   [tax, concept, unit, accn, form, fp, fy, start, end, filed, val]      *)
(* with dates on a small integer calendar; None is a missing start, year   *)
(* or value.  The result is the set of provider rows that may be stored,   *)
(* at most one for a storage key, and what was withheld.                   *)
(***************************************************************************)
EXTENDS Integers, Sequences, FiniteSets, FiniteSetsExt, SequencesExt

CONSTANT MaxSpan        \* MAX_PERIOD_CONTEXT_DAYS on the model's calendar

None == -1
Parsers == {"v2s1", "v2s2", "v3", "v4"}
Cohorts == {"base", "assessed", "utility", "reit", "valero", "suppressed"}
Metrics == {"revenue", "shares_out"}
FlowMetrics == {"revenue"}
AnnualForms == {"10-K", "10-K/A"}
InterimForms == {"10-Q", "10-Q/A", "8-K"}

Strict(v) == v \in {"v3", "v4"}
ExpectedUnit(metric) == IF metric = "shares_out" THEN "shares" ELSE "USD"
BaseRevenue == <<"Revenues", "ContractRevenue", "SalesRevenueNet">>

\* The concepts tried for a metric, in order of precedence.
Concepts(v, cohort, metric) ==
  IF metric = "shares_out" THEN <<"CommonShares", "EntityShares">>
  ELSE IF v # "v4" THEN BaseRevenue
  ELSE CASE cohort = "suppressed" -> <<>>
         [] cohort = "utility" -> <<"UtilityRevenue">> \o BaseRevenue
         [] cohort = "assessed" -> Append(BaseRevenue, "AssessedTaxRevenue")
         [] cohort = "reit" -> Append(BaseRevenue, "LeaseRevenue")
         [] OTHER -> BaseRevenue

Taxonomy(v, concept) ==
  IF Strict(v) /\ concept = "EntityShares" THEN "dei" ELSE "us-gaap"

RowsOf(payload, v, concept) ==
  SelectSeq(payload, LAMBDA r : r.concept = concept /\ r.tax = Taxonomy(v, concept))

InstantShare(r) == /\ r.unit = "shares" /\ r.accn # "" /\ r.val # None
                   /\ r.start = None

\* Two rows of one accession and period end that disagree: the strict parsers
\* refuse the whole response.
SharesContradict(payload, v) ==
  \E c \in {"CommonShares", "EntityShares"} :
    LET rows == SelectSeq(RowsOf(payload, v, c), InstantShare) IN
    \E a, b \in DOMAIN rows :
      /\ rows[a].accn = rows[b].accn /\ rows[a].end = rows[b].end
      /\ rows[a] # rows[b]

Ranked(rows, p) == [n \in DOMAIN rows |-> [raw |-> rows[n], priority |-> p]]

\* v2 keeps, for one accession, end and start, the first concept that has it;
\* the strict parsers keep every candidate of the exact unit.
Merge(payload, v, cohort, metric) ==
  LET concepts == Concepts(v, cohort, metric)
      Of(n) == RowsOf(payload, v, concepts[n])
      Exact(r) == IF metric = "shares_out" THEN InstantShare(r)
                  ELSE r.unit = ExpectedUnit(metric)
      Same(a, b) == <<a.raw.accn, a.raw.end, a.raw.start>>
                      = <<b.raw.accn, b.raw.end, b.raw.start>>
      all == FlattenSeq([n \in DOMAIN concepts |->
               Ranked(IF Strict(v) THEN SelectSeq(Of(n), Exact) ELSE Of(n), n)])
  IN IF Strict(v) THEN all
     ELSE FoldLeft(LAMBDA kept, r : IF \E n \in DOMAIN kept : Same(kept[n], r)
                                    THEN kept ELSE Append(kept, r), <<>>, all)

\* Valero's revenue: assessed-tax revenue less excise taxes of the same
\* context, each unambiguous; it precedes every filed concept.
Context(r) == [r EXCEPT !.concept = "", !.val = 0]
Derived(payload) ==
  LET Values(concept) == {r \in ToSet(payload) : /\ r.concept = concept
                                                 /\ r.tax = "us-gaap" /\ r.unit = "USD"}
      Unique(rows) == {r \in rows : \A s \in rows : Context(s) = Context(r) => s.val = r.val}
      net == {p \in Unique(Values("AssessedTaxRevenue")) \X Unique(Values("ExciseTax")) :
                Context(p[1]) = Context(p[2]) /\ p[1].val >= p[2].val}
  IN SetToSeq({[raw |-> [p[1] EXCEPT !.concept = "DerivedRevenue", !.val = p[1].val - p[2].val],
                priority |-> 0] : p \in net})

Candidates(payload, v, cohort, metric) ==
  Merge(payload, v, cohort, metric)
    \o IF v = "v4" /\ metric = "revenue" /\ cohort = "valero" THEN Derived(payload) ELSE <<>>

Span(r) == IF r.start = None THEN None ELSE r.end - r.start
Spans(rows) == {Span(r.raw) : r \in rows} \ {None}

Complete(r) == r.raw.val # None /\ r.raw.accn # "" /\ r.raw.form # ""
Spanned(r) == /\ r.raw.fp # "" /\ r.raw.fy # None
              /\ 0 < Span(r.raw) /\ Span(r.raw) <= MaxSpan

\* The exact contexts a strict parser accepts: of one accession and period end
\* one fiscal label, forms that fit it, the longest span of an annual report
\* or the shortest of an interim one, and for v4 revenue the best concept.
Contexts(v, metric, rows) ==
  IF metric \notin FlowMetrics
  THEN {r \in rows : Complete(r) /\ r.raw.start = None
                     /\ r.raw.form \in AnnualForms \cup InterimForms}
  ELSE LET usable == {r \in rows : Complete(r) /\ Spanned(r)}
           Group(r) == {s \in usable : s.raw.accn = r.raw.accn /\ s.raw.end = r.raw.end}
           Label(r) == <<r.raw.fp, r.raw.fy>>
           Forms(r) == IF r.raw.fp = "FY" THEN AnnualForms ELSE InterimForms
           Fits(r) == {s \in Group(r) : s.raw.form \in Forms(r)}
           Span1(r) == IF r.raw.fp = "FY" THEN Max(Spans(Fits(r))) ELSE Min(Spans(Fits(r)))
           Chosen(r) == {s \in Fits(r) : Span(s.raw) = Span1(r)}
       IN {r \in usable : /\ \A s \in Group(r) : Label(s) = Label(r)
                          /\ r \in Fits(r) /\ r \in Chosen(r)
                          /\ v = "v4" => \A s \in Chosen(r) : r.priority <= s.priority}

\* "all" are the candidates of a metric; v2 takes them as they are.
Accepted(v, metric, all) ==
  LET fit == Contexts(v, metric, ToSet(all))
  IN IF Strict(v) THEN SelectSeq(all, LAMBDA r : r \in fit) ELSE all

\* _single_period_value: the value of one period among the spans one
\* accession reports for it.
SinglePeriod(rows, r) ==
  LET group == SelectSeq(rows, LAMBDA s : /\ s.raw.val # None
                                          /\ s.raw.accn = r.raw.accn /\ s.raw.end = r.raw.end)
      spans == Spans(ToSet(group))
      annual == \E n \in DOMAIN group : group[n].raw.fp = "FY"
      Of(span) == SelectSeq(group, LAMBDA s : Span(s.raw) = span)
  IN IF Len(group) = 1 THEN r.raw.val
     ELSE IF spans = {} THEN None
     ELSE IF annual THEN Last(Of(Max(spans))).raw.val
     ELSE Head(Of(Min(spans))).raw.val

FiscalPeriod(r) == IF r.fp # "" /\ r.fy # None THEN <<r.fp, r.fy>>
                   ELSE IF r.fp # "" THEN <<r.fp, None>> ELSE <<"INST", None>>

ProviderRow(v, metric, rows, r) ==
  [end |-> r.raw.end, filed |-> r.raw.filed, metric |-> metric,
   period |-> FiscalPeriod(r.raw), value |-> r.raw.val,
   quarter |-> IF metric \in FlowMetrics THEN SinglePeriod(rows, r) ELSE r.raw.val,
   unit |-> IF Strict(v) THEN r.raw.unit ELSE "USD",
   locator |-> {}]

StorageKey(row) == <<row.end, row.filed, row.metric>>

\* The candidates for storage of one metric: provider rows with their place in
\* the response, without those whose period ends after the filing.
Storable(v, metric, rows) ==
  {[row |-> ProviderRow(v, metric, rows, rows[n]), at |-> n,
    priority |-> rows[n].priority,
    locator |-> IF Strict(v) THEN {<<rows[n].raw.concept, rows[n].raw.accn>>} ELSE {}] :
     n \in {m \in 1..Len(rows) : rows[m].raw.val # None /\ rows[m].raw.end <= rows[m].raw.filed}}

\* _select_metric_storage_rows: one row for a storage key, or none.
Preferred(v, metric, peers) ==
  IF v = "v4" /\ metric = "revenue"
  THEN {c \in peers : \A d \in peers : c.priority <= d.priority} ELSE peers
Agreed(peers) == Cardinality({c.row : c \in peers}) = 1
Winner(peers) ==
  LET first == CHOOSE c \in peers : \A d \in peers : c.at <= d.at IN
  [first.row EXCEPT !.locator = UNION {c.locator : c \in {d \in peers : d.row = first.row}}]
Selected(v, metric, candidates) ==
  LET groups == {Preferred(v, metric, {d \in candidates : StorageKey(d.row) = StorageKey(c.row)}) :
                   c \in candidates}
  IN [rows |-> {Winner(g) : g \in {h \in groups : v = "v2s2" \/ Agreed(h)}},
      conflicts |-> Cardinality({g \in groups : ~ Agreed(g)})]

\* What is stored of a metric's accepted rows, and how many of its candidates
\* were rejected: contradicted, filed before their period ended, or withheld.
Result(v, metric, offered, rows) ==
  LET selected == Selected(v, metric, Storable(v, metric, rows))
      future == {n \in DOMAIN rows : rows[n].raw.val # None /\ rows[n].raw.end > rows[n].raw.filed}
  IN [rows |-> selected.rows,
      rejected |-> selected.conflicts + Cardinality(future) + (offered - Len(rows))]
ResultOf(v, metric, all) == Result(v, metric, Len(all), Accepted(v, metric, all))

\* replay_sec_companyfacts_response: the storable rows of a response under one
\* parser, and how much of it was rejected.
Parse(v, cohort, payload) ==
  LET results == [metric \in Metrics |-> ResultOf(v, metric, Candidates(payload, v, cohort, metric))]
  IN IF Strict(v) /\ SharesContradict(payload, v)
     THEN [ok |-> FALSE, rows |-> {}, rejected |-> 0]
     ELSE [ok |-> TRUE, rows |-> UNION {results[metric].rows : metric \in Metrics},
           rejected |-> MapThenSumSet(LAMBDA metric : results[metric].rejected, Metrics)]

\* What two rows of one key must agree on; the source locator is left out.
Economics(row) == [row EXCEPT !.locator = {}]
Relation(rows) == {Economics(r) : r \in rows}
================================================================================
