------------------------------- MODULE PriceStore -------------------------------
(***************************************************************************)
(* Daily prices: what the adapters return, what the table keeps and what   *)
(* the readers make of a stored row (src/src/aios/ingest/prices.py, the    *)
(* price part of storage/store.py, factors/market_factors.py and           *)
(* readiness.py).                                                          *)
(*                                                                         *)
(* A day is a session.  Every split is two for one, and a price is the     *)
(* number of times it was halved: with no other movement the close quoted  *)
(* on a day is minus the splits so far, and the true daily return is 0.    *)
(* A line is what one series of prices is about: the benchmark or the      *)
(* security of a member.  A stored series is a function from days to rows. *)
(***************************************************************************)
EXTENDS Integers, FiniteSets, FiniteSetsExt

CONSTANTS
  Spy,       \* the benchmark, fetched by its bare ticker
  Members,   \* reviewed members, fetched through reviewed provider symbols
  Splits,    \* line -> sessions of its two-for-one splits
  Listed,    \* member -> first day of its reviewed provider symbol
  Overlap,   \* days fetched again (5 in the code)
  Tiingo,    \* whether a Tiingo key is configured
  Unknown    \* no split factor, in a row from before factors were stored

Lines == {Spy} \cup Members

ASSUME PriceAssumption ==
  /\ IsFiniteSet(Members) /\ Spy \notin Members
  /\ Splits \in [Lines -> SUBSET Nat] /\ Listed \in [Members -> Nat]
  /\ Overlap \in Nat /\ Tiingo \in BOOLEAN /\ Unknown \notin Int

\* An answer of a provider is the newest session it has, Down for a failure
\* or an empty answer after the retries of the adapter.
Down == -1

\* The days of the window [start, end) that an answer reaching to day through has.
DaysOf(start, end, through) == Max({0, start})..Min({end - 1, through})

SplitsIn(line, window) == Cardinality(Splits[line] \cap window)

\* Yahoo halves its historical closes for every split it knows of.
YahooBasis(line, day, through) == SplitsIn(line, (day + 1)..through)

\* What each parser says of a row.  Yahoo's closes come with the factor that
\* restores the quoted price, from the later splits among the scanned rows.
YahooRow(line, day, through, scanned) ==
  [basis |-> YahooBasis(line, day, through), factor |-> SplitsIn(line, (day + 1)..scanned),
   adjusted |-> TRUE, safe |-> TRUE]
\* The parser of action repairs gives no factor, and a split the action policy
\* has no complete review of leaves its row unsafe.
ActionRow(line, day, through) ==
  [basis |-> YahooBasis(line, day, through), factor |-> 0,
   adjusted |-> FALSE, safe |-> day \notin Splits[line]]
TiingoRow == [basis |-> 0, factor |-> 0, adjusted |-> FALSE, safe |-> TRUE]
StooqRow  == [basis |-> 0, factor |-> 0, adjusted |-> FALSE, safe |-> FALSE]

\* The rows asked for are the ones before end; the scan reaches past it.
\* (a fault) Only the requested rows are scanned for later splits.
FetchYfinance_Fault(line, start, end, through) ==
  LET last == Min({end - 1, through})
  IN [d \in DaysOf(start, end, through) |-> YahooRow(line, d, through, last)]
FetchYfinance(line, start, end, through) ==
  [d \in DaysOf(start, end, through) |-> YahooRow(line, d, through, through)]
FetchActions(line, start, end, through) ==
  [d \in DaysOf(start, end, through) |-> ActionRow(line, d, through)]
FetchTiingo(start, end, through) == [d \in DaysOf(start, end, through) |-> TiingoRow]
FetchStooq(start, end, through) == [d \in DaysOf(start, end, through) |-> StooqRow]

\* fetch_prices: the fallbacks of a bare ticker.
FetchPrices(line, start, end, yahoo, tiingo, stooq) ==
  LET first == FetchYfinance(line, start, end, yahoo)
      second == FetchTiingo(start, end, tiingo)
  IN IF first # << >> THEN first
     ELSE IF Tiingo /\ second # << >> THEN second ELSE FetchStooq(start, end, stooq)

\* upsert_prices: the row that comes replaces the stored one.
Upsert(stored, rows) ==
  [d \in DOMAIN rows \cup DOMAIN stored |-> IF d \in DOMAIN rows THEN rows[d] ELSE stored[d]]

\* (a fault) Only the session that has just completed is fetched.
Incremental_Fault(stored, completed) == completed
Incremental(stored, completed) ==
  IF stored = << >> THEN 0 ELSE Max(DOMAIN stored) - Overlap

\* relabel_provider_price_rows: nothing from before the reviewed mapping.
Relabelled(m, rows) == [d \in {x \in DOMAIN rows : x >= Listed[m]} |-> rows[d]]

\* ingest_prices and ingest_security_prices, as the rows they fetch.  The
\* second asks its one reviewed provider for days before the local date only.
BenchmarkRows(stored, completed, yahoo, tiingo, stooq) ==
  FetchPrices(Spy, Incremental(stored, completed), completed + 1, yahoo, tiingo, stooq)
MemberRows(m, stored, completed, today, yahoo) ==
  LET start == Max({Listed[m], Incremental(stored, completed)})
  IN IF start >= today THEN << >> ELSE Relabelled(m, FetchYfinance(m, start, today, yahoo))

(***************************************************************************)
(* Readers.                                                                *)
(***************************************************************************)
Quoted(line, day) == -SplitsIn(line, 0..day)
Close(line, day, row) == Quoted(line, day) - row.basis

\* factor_price_from_row
FactorPrice(line, day, row) ==
  IF ~ row.adjusted THEN Close(line, day, row)
  ELSE IF row.factor = Unknown THEN Unknown ELSE Close(line, day, row) + row.factor

Reviewed(row) == row.safe /\ row.factor # Unknown
ReviewedDays(stored, asof) == {d \in DOMAIN stored : d <= asof /\ Reviewed(stored[d])}

\* latest_reviewed_market_close
LatestClose(stored, asof) ==
  LET safe == {d \in DOMAIN stored : d <= asof /\ stored[d].safe}
  IN IF safe = {} THEN Down ELSE Max(safe)

\* compute_market_factors_raw: the rows it accepts, the newest of a contiguous
\* window on one basis flag, and the daily return it takes between two of them.
Accepted(stored, asof, window) ==
  LET days == (asof - window + 1)..asof IN
  /\ days \subseteq DOMAIN stored
  /\ \A d \in days : stored[d].safe
  /\ \A d, e \in days : stored[d].adjusted = stored[e].adjusted
DailyReturn(line, stored, day) ==
  Close(line, day, stored[day]) - Close(line, day - 1, stored[day - 1])
  + IF ~ stored[day].adjusted /\ day \in Splits[line] THEN 1 ELSE 0

\* _broad_reviewed_price_bounds: the newest benchmark session on which enough
\* members have reviewed prices.
Covered(prices, day) == Cardinality({m \in Members : day \in ReviewedDays(prices[m], day)})
BroadThrough(prices, asof, minimum) ==
  LET broad == {d \in ReviewedDays(prices[Spy], asof) : Covered(prices, d) >= minimum}
  IN IF broad = {} THEN Down ELSE Max(broad)
Fresh(stored, asof, age) == \E d \in ReviewedDays(stored, asof) : asof - d <= age

\* The price checks of data_quality_report that block: a restated close of a
\* member without its factor.
QualityOK(prices) ==
  \A m \in Members : \A d \in DOMAIN prices[m] :
    prices[m][d].adjusted => prices[m][d].factor # Unknown
\* universe_data_coverage
HasHistory(prices, m, asof) == Listed[m] <= asof /\ \E d \in DOMAIN prices[m] : d <= asof

\* price_action_refresh_candidates
Candidates(prices, start, end) ==
  {m \in Members : \E d \in DOMAIN prices[m] : d \in start..(end - 1) /\ ~ Reviewed(prices[m][d])}
================================================================================
