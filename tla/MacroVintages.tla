------------------------------ MODULE MacroVintages ------------------------------
(***************************************************************************)
(* Release-dated macro series: the incremental fetch of FRED vintages and  *)
(* the Treasury's own yields (src/src/aios/ingest/fred.py), the table and  *)
(* its point-in-time read (storage/store.py).  A vintage [obs, rel] is the *)
(* value FRED published on day rel for the observation obs; a stored row   *)
(* [obs, rel, value, src] says which vintage its value is of, or that it   *)
(* is the Treasury's.                                                      *)
(***************************************************************************)
EXTENDS Integers, FiniteSets, FiniteSetsExt

CONSTANTS
  Series,
  Yields,          \* series the Treasury publishes too
  Vintages,        \* series -> vintages, from whole history
  ReleaseOverlap,  \* days of releases fetched again (31 in the code)
  ChunkSize,       \* vintages in one request (FRED_VINTAGE_CHUNK_SIZE)
  LastDay          \* bound: days

\* Nothing is published before the day it is about.
ASSUME MacroAssumption ==
  /\ IsFiniteSet(Series) /\ Yields \subseteq Series
  /\ DOMAIN Vintages = Series
  /\ \A s \in Series : \A v \in Vintages[s] :
       v = [obs |-> v.obs, rel |-> v.rel] /\ v.obs \in 0..v.rel /\ v.rel \in Nat
  /\ ReleaseOverlap \in Nat /\ ChunkSize \in Nat \ {0} /\ LastDay \in Nat

\* _bounded_vintage_dates and _chunks: the release days from a day on, in runs
\* of at most ChunkSize.
VintageDates(s, from, today) == {v.rel : v \in {w \in Vintages[s] : from <= w.rel /\ w.rel <= today}}
Chunk(dates, r) == Cardinality({q \in dates : q < r}) \div ChunkSize
Chunks(dates) == {{q \in dates : Chunk(dates, q) = Chunk(dates, r)} : r \in dates}

\* FRED gives what was in force in a window of days; a value from before the
\* window is dated at its first day.
ReleaseWindow(s, first, last) ==
  {[obs |-> v.obs, rel |-> Max({v.rel, first}), value |-> v.rel] :
     v \in {w \in Vintages[s] : /\ w.rel <= last
                                /\ ~ \E x \in Vintages[s] : /\ x.obs = w.obs
                                                            /\ w.rel < x.rel /\ x.rel <= first}}
\* parse_fred_normalized_export: each vintage of an answer is a row of FRED.
FredRows(answer) == {[obs |-> a.obs, rel |-> a.rel, value |-> a.value, src |-> "fred"] : a \in answer}
FetchSeries(s, from, today) ==
  UNION {FredRows(ReleaseWindow(s, Min(c), Max(c))) : c \in Chunks(VintageDates(s, from, today))}

\* The answers, tabulated by series, day and first release day.
Fetched == [s \in Series |-> [today \in 0..LastDay |->
             [from \in (-ReleaseOverlap)..LastDay |-> FetchSeries(s, from, today)]]]

\* fetch_treasury_yield_curve: the year's observations through the last
\* completed session, each public on its own day and never revised.
TreasuryValue == -2
TreasuryRows(s, completed) ==
  {[obs |-> d, rel |-> d, value |-> TreasuryValue, src |-> "treasury"] :
     d \in IF s \in Yields THEN 0..completed ELSE {}}

\* (a fault) Only the releases of the day are fetched.
IncrementalFrom_Fault(rows, today) == today
IncrementalFrom(rows, today) ==
  LET fred == {r \in rows : r.src = "fred"} IN
  IF fred = {} THEN 0 ELSE Max({r.rel : r \in fred}) - ReleaseOverlap

\* upsert_macro
UpsertMacro(rows, new) ==
  new \cup {r \in rows : ~ \E n \in new : <<n.obs, n.rel, n.src>> = <<r.obs, r.rel, r.src>>}
Refreshed(s, rows, today) ==
  UpsertMacro(rows, Fetched[s][today][IncrementalFrom(rows, today)])

\* pit_macro_history: the newest release that was known, of a day FRED's first.
NoValue == -1
Pit(rows, obs, asof) ==
  LET known == {r \in rows : r.obs = obs /\ r.rel <= asof /\ obs <= asof}
      newest == {r \in known : \A q \in known : q.rel <= r.rel}
      Of(src) == {r.value : r \in {q \in newest : q.src = src}}
  IN IF known = {} THEN NoValue
     ELSE CHOOSE v \in IF Of("fred") # {} THEN Of("fred") ELSE Of("treasury") : TRUE

\* What FRED had published by that day.
Published(s, obs, asof) ==
  LET known == {v \in Vintages[s] : v.obs = obs /\ v.rel <= asof /\ obs <= asof}
  IN IF known = {} THEN NoValue ELSE Max({v.rel : v \in known})

\* compute_regime: every mandatory series has a value.
RegimeReady(macro, asof) ==
  \A s \in Series \ Yields : \E r \in macro[s] : r.rel <= asof /\ r.obs <= asof
================================================================================
