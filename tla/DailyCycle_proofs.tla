---------------------------- MODULE DailyCycle_proofs ----------------------------
(***************************************************************************)
(* Proofs about DailyCycle.  PricesKept says what every stored series is,  *)
(* MacroKept that every stored row of FRED is what FRED had published on   *)
(* the day it is dated, with no release missing up to the last complete    *)
(* fetch, and RunKept what a run has behind it at each of its steps.       *)
(***************************************************************************)
EXTENDS DailyCycle, FiniteSetTheorems, WellFoundedInduction, TLAPS

\* A stored series through a day: rows without a hole, and of a member nothing
\* from before its reviewed symbol.
Stored(line, stored, through) ==
  /\ stored = [d \in DOMAIN stored |-> stored[d]]
  /\ DOMAIN stored \subseteq 0..through
  /\ \A d \in DOMAIN stored : stored[d] \in RowType
  /\ \A d, e \in DOMAIN stored : d..e \subseteq DOMAIN stored
  /\ line \in Members => \A d \in DOMAIN stored : Listed[line] <= d

PricesKept ==
  /\ DOMAIN prices = Lines
  /\ \A l \in Lines : Stored(l, prices[l], Completed)

\* The newest vintage of an observation on a day.
Newest(s, v, day) ==
  /\ v \in Vintages[s] /\ v.rel <= day
  /\ \A x \in Vintages[s] : x.obs = v.obs /\ x.rel <= day => x.rel <= v.rel

Row(obs, rel, value, src) == [obs |-> obs, rel |-> rel, value |-> value, src |-> src]

\* A row of FRED dated rel has the value that was in force on day rel.
FredRow(s, r, through) ==
  /\ r.obs \in 0..through /\ r.rel \in 0..through
  /\ \E v \in Vintages[s] :
       Newest(s, v, r.rel) /\ r = Row(v.obs, r.rel, v.rel, "fred")

TreasuryRow(s, r, through) ==
  s \in Yields /\ r.obs \in 0..through /\ r = Row(r.obs, r.obs, TreasuryValue, "treasury")

\* The rows of a series of which FRED was read completely on day fetch.
Known(s, rows, fetch, through) ==
  /\ \A r \in rows : FredRow(s, r, fetch) \/ TreasuryRow(s, r, through)
  /\ \A v \in Vintages[s] : v.rel <= fetch => Row(v.obs, v.rel, v.rel, "fred") \in rows

MacroKept ==
  /\ DOMAIN macro = Series /\ fetched \in [Series -> 0..LastDay]
  /\ \A s \in Series : fetched[s] <= Completed /\ Known(s, macro[s], fetched[s], Completed)

Steps == {"check", "benchmark", "universe", "macro", "members", "readiness",
          "fail", "report", "recover"}
RunType == [pc : Steps, target : 0..LastDay, todo : Seq(Members), failed : BOOLEAN,
            streak : Nat, current : BOOLEAN]

\* A run works for the target of the newest row of the jobs; once its macro
\* series are refreshed without a failure no mandatory one is behind the target.
RunKept ==
  /\ run = NoRun \/ run \in RunType
  /\ run # NoRun =>
       /\ run.target <= Completed /\ job.target = run.target
       /\ run.current => run.target \in certified
       /\ run.pc = "readiness" \/ (run.pc = "members" /\ ~ run.failed) =>
            \A s \in Series \ Yields : fetched[s] >= run.target
  /\ job.state = "success" => job.target \in certified

Rest ==
  /\ \E d \in 0..LastDay : clock \in {2 * d, 2 * d + 1}
  /\ universe \in 0..LastDay
  /\ job \in [state : {"running", "success", "failed"}, target : 0..LastDay]
  /\ certified \subseteq 0..LastDay
  /\ incident \in {"none", "open", "resolved"} /\ squatter \in BOOLEAN
  /\ faults \in 0..MaxFaults /\ repairs \in 0..MaxRepairs

IInv == Rest /\ PricesKept /\ MacroKept /\ RunKept

\* What a member without a row to be reviewed keeps, and every price quoted.
AllReviewed(stored) == \A d \in DOMAIN stored : Reviewed(stored[d])
QuotedKept ==
  /\ QuotedBasis
  /\ \A m \in Members : AllReviewed(History[m]) => AllReviewed(prices[m])

\* What is stored at the start is quoted, and no line that an action repair can
\* reach splits after the start of its window.
Premises ==
  /\ \A l \in Lines : \A d \in DOMAIN History[l] :
       FactorPrice(l, d, History[l][d]) \in {Quoted(l, d), Unknown}
  /\ \A l \in Lines : \A w \in RepairWindows :
       (\A d \in Splits[l] : d <= w[1]) \/ (l \in Members /\ AllReviewed(History[l]))
Tested == IInv /\ QuotedKept /\ Premises

-----------------------------------------------------------------------------
(* Days.                                                                   *)

LEMMA DayOf ==
  ASSUME NEW c \in Nat, NEW d \in 0..LastDay, c \in {2 * d, 2 * d + 1}
  PROVE  (CHOOSE x \in 0..LastDay : c \in {2 * x, 2 * x + 1}) = d
<1>1. \A x \in 0..LastDay : c \in {2 * x, 2 * x + 1} => x = d
  BY MacroAssumption
<1> QED BY <1>1, Zenon

LEMMA MaxPair ==
  ASSUME NEW a \in Int, NEW b \in Int
  PROVE  Max({a, b}) = IF a >= b THEN a ELSE b
<1>1. \E x \in {a, b} : \A y \in {a, b} : x >= y
  OBVIOUS
<1>2. Max({a, b}) \in {a, b} /\ \A y \in {a, b} : Max({a, b}) >= y
  BY <1>1, Zenon DEF Max
<1> QED BY <1>2

LEMMA MinPair ==
  ASSUME NEW a \in Int, NEW b \in Int
  PROVE  Min({a, b}) = IF a <= b THEN a ELSE b
<1>1. \E x \in {a, b} : \A y \in {a, b} : x =< y
  OBVIOUS
<1>2. Min({a, b}) \in {a, b} /\ \A y \in {a, b} : Min({a, b}) =< y
  BY <1>1, Zenon DEF Min
<1> QED BY <1>2

LEMMA MinOf ==
  ASSUME NEW S \in SUBSET Nat, S # {}
  PROVE  Min(S) \in S /\ \A x \in S : Min(S) <= x
<1>1. PICK t \in S : \A y \in S : ~ (<<y, t>> \in OpToRel(<, Nat))
  BY NatLessThanWellFounded, WFMin
<1>2. \A y \in S : ~ (y < t)
  <2> SUFFICES ASSUME NEW y \in S PROVE ~ (y < t)
    OBVIOUS
  <2>1. y \in Nat /\ t \in Nat /\ <<y, t>> \notin OpToRel(<, Nat)
    BY <1>1
  <2> QED BY <2>1, Zenon DEF OpToRel
<1>3. \A y \in S : t =< y
  BY <1>2
<1>4. Min(S) \in S /\ \A y \in S : Min(S) =< y
  BY <1>3, Zenon DEF Min
<1> QED BY <1>4

LEMMA MaxOf ==
  ASSUME NEW n \in Nat, NEW S \in SUBSET (0..n), S # {}
  PROVE  Max(S) \in S /\ \A x \in S : x <= Max(S)
<1> DEFINE T == {n - x : x \in S}
<1>1. T \subseteq Nat /\ T # {}
  <2>1. \A x \in S : n - x \in Nat
    OBVIOUS
  <2> QED BY <2>1 DEF T
<1>2. Min(T) \in T /\ \A y \in T : Min(T) <= y
  <2> HIDE DEF T
  <2> QED BY <1>1, MinOf
<1>3. PICK m \in S : Min(T) = n - m
  BY <1>2 DEF T
<1>4. \A x \in S : n - x \in T
  BY DEF T
<1> HIDE DEF T
<1>5. \A x \in S : m >= x
  BY <1>1, <1>2, <1>3, <1>4
<1>6. Max(S) \in S /\ \A x \in S : Max(S) >= x
  BY <1>5, Zenon DEF Max
<1> QED BY <1>6

-----------------------------------------------------------------------------
(* Stored series.                                                          *)

\* The rows of the days a..b.
IsAnswer(rows, a, b) ==
  /\ rows = [d \in DOMAIN rows |-> rows[d]] /\ DOMAIN rows = a..b
  /\ \A d \in DOMAIN rows : rows[d] \in RowType

LEMMA UpsertKept ==
  ASSUME NEW line \in Lines, NEW stored, NEW t \in Int, Stored(line, stored, t),
         NEW rows, NEW a \in Nat, NEW b \in Int, IsAnswer(rows, a, b),
         NEW u \in Int, t <= u, b <= u,
         line \in Members => Listed[line] <= a,
         DOMAIN stored # {} => a > b \/ \E d \in DOMAIN stored : d \in (a - 1)..(b + 1)
  PROVE  Stored(line, Upsert(stored, rows), u)
<1> DEFINE S == DOMAIN stored
           new == Upsert(stored, rows)
<1>1. /\ DOMAIN new = (a..b) \cup S
      /\ new = [d \in DOMAIN new |-> new[d]]
      /\ \A d \in a..b : new[d] = rows[d]
      /\ \A d \in S \ (a..b) : new[d] = stored[d]
  BY DEF IsAnswer, Upsert
<1>2. S \subseteq 0..t /\ S \subseteq Nat /\ \A d, e \in S : d..e \subseteq S
  BY DEF Stored
<1> HIDE DEF new
<1>3. DOMAIN new \subseteq 0..u
  BY <1>1, <1>2
<1>4. \A d \in DOMAIN new : new[d] \in RowType
  <2> SUFFICES ASSUME NEW d \in DOMAIN new PROVE new[d] \in RowType
    OBVIOUS
  <2>1. CASE d \in a..b
    BY <1>1, <2>1 DEF IsAnswer
  <2>2. CASE d \notin a..b
    BY <1>1, <2>2 DEF Stored
  <2> QED BY <2>1, <2>2
<1>5. \A d, e \in DOMAIN new : d..e \subseteq DOMAIN new
  <2>1. CASE a > b \/ S = {}
    <3>1. a..b = {} \/ S = {}
      BY <2>1
    <3> QED BY <1>1, <1>2, <3>1
  <2>2. CASE S # {} /\ \E d \in S : d \in (a - 1)..(b + 1)
    <3>1. PICK k \in S : k \in (a - 1)..(b + 1)
      BY <2>2
    <3> SUFFICES ASSUME NEW x \in (a..b) \cup S, NEW y \in (a..b) \cup S, NEW z \in x..y
                 PROVE  z \in (a..b) \cup S
      BY <1>1
    <3> x \in Int /\ y \in Int /\ k \in Int /\ z \in Int
      BY <1>2, <3>1
    <3>2. CASE x \in S /\ y \in S
      BY <1>2, <3>2
    <3>3. CASE x \in a..b /\ y \in a..b
      BY <3>3
    <3>4. CASE x \in S /\ y \in a..b
      <4>1. z <= k => z \in S
        BY <1>2, <3>1, <3>4
      <4>2. z > k => z \in a..b
        BY <3>1, <3>4
      <4> QED BY <4>1, <4>2
    <3>5. CASE x \in a..b /\ y \in S
      <4>1. z >= k => z \in S
        BY <1>2, <3>1, <3>5
      <4>2. z < k => z \in a..b
        BY <3>1, <3>5
      <4> QED BY <4>1, <4>2
    <3> QED BY <3>2, <3>3, <3>4, <3>5
  <2> QED BY <2>1, <2>2
<1>6. line \in Members => \A d \in DOMAIN new : Listed[line] <= d
  <2> SUFFICES ASSUME line \in Members, NEW d \in DOMAIN new PROVE Listed[line] <= d
    OBVIOUS
  <2>1. Listed[line] \in Nat
    BY PriceAssumption
  <2>2. CASE d \in a..b
    BY <2>1, <2>2
  <2>3. CASE d \in S
    BY <2>3 DEF Stored
  <2> QED BY <1>1, <2>2, <2>3
<1> QED BY <1>1, <1>3, <1>4, <1>5, <1>6 DEF Stored, new

LEMMA StoredLater ==
  ASSUME NEW line \in Lines, NEW stored, NEW t \in Int, NEW u \in Int, t <= u,
         Stored(line, stored, t)
  PROVE  Stored(line, stored, u)
BY DEF Stored

LEMMA SplitsNat ==
  ASSUME NEW line \in Lines, NEW a \in Int, NEW b \in Int
  PROVE  SplitsIn(line, a..b) \in Nat
BY FS_Interval, FS_Subset, FS_CardinalityType DEF SplitsIn

LEMMA NoSplits ==
  ASSUME NEW line \in Lines, NEW a \in Int, NEW b \in Int,
         \A d \in Splits[line] : d < a
  PROVE  SplitsIn(line, a..b) = 0
<1>1. Splits[line] \cap (a..b) = {}
  BY PriceAssumption
<1> QED BY <1>1, FS_EmptySet DEF SplitsIn

\* The last day of an answer, and the first that is asked for.
Last(end, through) == Min({end - 1, through})
First(start) == Max({0, start})

LEMMA FirstIs ==
  ASSUME NEW start \in Int
  PROVE  /\ First(start) \in Nat
         /\ 0 >= start => First(start) = 0
         /\ start >= 0 => First(start) = start
<1>1. Max({0, start}) = IF 0 >= start THEN 0 ELSE start
  BY MaxPair
<1> QED BY <1>1 DEF First

LEMMA LastIs ==
  ASSUME NEW end \in Int, NEW through \in Int
  PROVE  /\ Last(end, through) \in Int
         /\ end <= through + 1 => Last(end, through) = end - 1
         /\ end >= through + 1 => Last(end, through) = through
<1>1. end - 1 \in Int
  OBVIOUS
<1>2. Min({end - 1, through}) = IF end - 1 <= through THEN end - 1 ELSE through
  BY <1>1, MinPair
<1> QED BY <1>1, <1>2 DEF Last

LEMMA Days ==
  ASSUME NEW start \in Int, NEW end \in Int, NEW through \in Int
  PROVE  /\ DaysOf(start, end, through) = First(start)..Last(end, through)
         /\ First(start) \in Int /\ Last(end, through) \in Int
<1>1. First(start) \in Int
  BY FirstIs
<1>2. Last(end, through) \in Int
  BY LastIs
<1>3. DaysOf(start, end, through) = First(start)..Last(end, through)
  BY DEF DaysOf, First, Last
<1> QED BY <1>1, <1>2, <1>3

LEMMA DayIn ==
  ASSUME NEW start \in Int, NEW end \in Int, NEW through \in Int,
         NEW d \in DaysOf(start, end, through)
  PROVE  d \in Int /\ First(start) <= d
<1>1. PICK a \in Int, b \in Int : a = First(start) /\ b = Last(end, through)
  BY Days
<1>2. DaysOf(start, end, through) = a..b
  BY <1>1, Days
<1> QED BY <1>1, <1>2

LEMMA YahooAnswer ==
  ASSUME NEW line \in Lines, NEW start \in Int, NEW end \in Int, NEW through \in Int
  PROVE  IsAnswer(FetchYfinance(line, start, end, through), First(start), Last(end, through))
<1> DEFINE days == First(start)..Last(end, through)
<1>1. DaysOf(start, end, through) = days /\ days \subseteq Int
  BY Days
<1>2. \A d \in days : YahooRow(line, d, through, through) \in RowType
  <2> SUFFICES ASSUME NEW d \in days PROVE YahooRow(line, d, through, through) \in RowType
    OBVIOUS
  <2>1. d + 1 \in Int
    BY <1>1
  <2>2. SplitsIn(line, (d + 1)..through) \in Nat
    BY <2>1, SplitsNat
  <2> QED BY <2>2 DEF YahooRow, YahooBasis, RowType
<1> QED BY <1>1, <1>2 DEF IsAnswer, FetchYfinance

LEMMA ActionAnswer ==
  ASSUME NEW line \in Lines, NEW start \in Int, NEW end \in Int, NEW through \in Int
  PROVE  IsAnswer(FetchActions(line, start, end, through), First(start), Last(end, through))
<1> DEFINE days == First(start)..Last(end, through)
<1>1. DaysOf(start, end, through) = days /\ days \subseteq Int
  BY Days
<1>2. \A d \in days : ActionRow(line, d, through) \in RowType
  <2> SUFFICES ASSUME NEW d \in days PROVE ActionRow(line, d, through) \in RowType
    OBVIOUS
  <2>1. d + 1 \in Int
    BY <1>1
  <2>2. SplitsIn(line, (d + 1)..through) \in Nat
    BY <2>1, SplitsNat
  <2> QED BY <2>2 DEF ActionRow, YahooBasis, RowType
<1> QED BY <1>1, <1>2 DEF IsAnswer, FetchActions

LEMMA FallbackAnswer ==
  ASSUME NEW start \in Int, NEW end \in Int, NEW through \in Int
  PROVE  /\ IsAnswer(FetchTiingo(start, end, through), First(start), Last(end, through))
         /\ IsAnswer(FetchStooq(start, end, through), First(start), Last(end, through))
<1>1. TiingoRow \in RowType /\ StooqRow \in RowType
  BY DEF TiingoRow, StooqRow, RowType
<1> QED BY <1>1, Days DEF IsAnswer, FetchTiingo, FetchStooq

LEMMA IncrementalIn ==
  ASSUME NEW line \in Lines, NEW stored, NEW t \in Nat, Stored(line, stored, t), NEW c
  PROVE  /\ Incremental(stored, c) \in Int
         /\ DOMAIN stored # {} => \E m \in DOMAIN stored : Incremental(stored, c) <= m
<1>1. DOMAIN stored = {} => stored = << >>
  BY DEF Stored
<1>2. stored = << >> => DOMAIN stored = {}
  OBVIOUS
<1>3. CASE stored = << >>
  BY <1>2, <1>3 DEF Incremental
<1>4. CASE stored # << >>
  <2>1. DOMAIN stored \in SUBSET (0..t) /\ DOMAIN stored # {}
    BY <1>1, <1>4 DEF Stored
  <2>2. Max(DOMAIN stored) \in DOMAIN stored
    BY <2>1, MaxOf
  <2>3. Max(DOMAIN stored) \in Int /\ Max(DOMAIN stored) - Overlap \in Int
        /\ Max(DOMAIN stored) - Overlap <= Max(DOMAIN stored)
    BY <2>1, <2>2, PriceAssumption
  <2> QED BY <1>4, <2>2, <2>3 DEF Incremental
<1> QED BY <1>3, <1>4

LEMMA SpyLine == Spy \in Lines /\ (Spy \in Members <=> FALSE) /\ \A m \in Members : m \in Lines
BY PriceAssumption DEF Lines

\* However an answer falls short, what is fetched from the overlap on meets
\* what is stored.
LEMMA BenchmarkKept ==
  ASSUME NEW stored, NEW c \in Nat, Stored(Spy, stored, c),
         NEW yahoo \in {c, c - 1, Down}, NEW tiingo \in {c, Down}, NEW stooq \in {c, Down}
  PROVE  Stored(Spy, Upsert(stored, BenchmarkRows(stored, c, yahoo, tiingo, stooq)), c)
<1> DEFINE start == Incremental(stored, c)
           rows == BenchmarkRows(stored, c, yahoo, tiingo, stooq)
<1>1. start \in Int /\ (DOMAIN stored # {} => \E m \in DOMAIN stored : start <= m)
  BY SpyLine, IncrementalIn
<1>2. yahoo \in Int /\ tiingo \in Int /\ stooq \in Int /\ c + 1 \in Int
  BY DEF Down
<1>3. PICK through \in {yahoo, tiingo, stooq} : IsAnswer(rows, First(start), Last(c + 1, through))
  BY <1>1, <1>2, SpyLine, YahooAnswer, FallbackAnswer DEF BenchmarkRows, FetchPrices
<1> HIDE DEF start, rows
<1> DEFINE a == First(start)
           b == Last(c + 1, through)
<1>4. a \in Nat /\ (0 >= start => a = 0) /\ (start >= 0 => a = start)
  BY <1>1, FirstIs
<1>5. b \in Int /\ (c <= through => b = c) /\ (c >= through => b = through)
  <2>1. /\ b \in Int
        /\ c + 1 <= through + 1 => b = c + 1 - 1
        /\ c + 1 >= through + 1 => b = through
    <3>1. through \in Int
      BY <1>2
    <3>2. PICK e \in Int : e = c + 1
      BY <1>2
    <3>3. /\ Last(e, through) \in Int
          /\ e <= through + 1 => Last(e, through) = e - 1
          /\ e >= through + 1 => Last(e, through) = through
      BY <3>1, LastIs
    <3> QED BY <3>2, <3>3
  <2> HIDE DEF b
  <2> QED BY <1>2, <2>1
<1> HIDE DEF a, b
<1>6. b \in {c, c - 1, -1}
  BY <1>2, <1>5 DEF Down
<1>7. DOMAIN stored # {} => a > b \/ \E d \in DOMAIN stored : d \in (a - 1)..(b + 1)
  <2> SUFFICES ASSUME DOMAIN stored # {}, a <= b
               PROVE  \E d \in DOMAIN stored : d \in (a - 1)..(b + 1)
    BY <1>4, <1>5
  <2>1. PICK m \in DOMAIN stored : start <= m
    BY <1>1
  <2>2. m \in 0..c
    BY DEF Stored
  <2>3. m \in (a - 1)..(b + 1)
    BY <1>1, <1>4, <1>5, <1>6, <2>1, <2>2
  <2> QED BY <2>3
<1>8. b <= c /\ c <= c
  BY <1>5, <1>6
<1>9. IsAnswer(rows, a, b)
  BY <1>3 DEF a, b
<1>10. Stored(Spy, Upsert(stored, rows), c)
  BY <1>4, <1>5, <1>7, <1>8, <1>9, SpyLine, UpsertKept
<1> QED BY <1>10 DEF rows

LEMMA RelabelledIs ==
  ASSUME NEW m \in Members, NEW rows, NEW a \in Nat, NEW b \in Int, IsAnswer(rows, a, b),
         NEW x \in Nat, x = IF a >= Listed[m] THEN a ELSE Listed[m]
  PROVE  IsAnswer(Relabelled(m, rows), x, b) /\ Listed[m] <= x
<1>1. Listed[m] \in Nat
  BY PriceAssumption
<1>2. {d \in a..b : d >= Listed[m]} = x..b
  BY <1>1
<1>3. DOMAIN rows = a..b /\ \A d \in a..b : rows[d] \in RowType
  BY DEF IsAnswer
<1>4. Relabelled(m, rows) = [d \in x..b |-> rows[d]] /\ x..b \subseteq a..b
  BY <1>1, <1>2, <1>3 DEF Relabelled
<1> QED BY <1>1, <1>3, <1>4 DEF IsAnswer

LEMMA MemberKept ==
  ASSUME NEW m \in Members, NEW stored, NEW c \in Nat, Stored(m, stored, c),
         NEW today \in {c, c + 1}, NEW yahoo \in {c, c - 1, Down}
  PROVE  Stored(m, Upsert(stored, MemberRows(m, stored, c, today, yahoo)), c)
<1> DEFINE inc == Incremental(stored, c)
           start == Max({Listed[m], inc})
           rows == MemberRows(m, stored, c, today, yahoo)
<1>1. inc \in Int /\ (DOMAIN stored # {} => \E k \in DOMAIN stored : inc <= k)
  BY SpyLine, IncrementalIn
<1>2. Listed[m] \in Nat /\ yahoo \in Int /\ today \in Int
  BY PriceAssumption DEF Down
<1> HIDE DEF inc
<1>3. start \in Int /\ start = IF Listed[m] >= inc THEN Listed[m] ELSE inc
  BY <1>1, <1>2, MaxPair
<1> HIDE DEF start
<1> rows = IF start >= today THEN << >> ELSE Relabelled(m, FetchYfinance(m, start, today, yahoo))
  BY DEF MemberRows, start, inc
<1> HIDE DEF rows
<1>4. CASE start >= today
  <2>1. IsAnswer(rows, Listed[m], -1)
    <3>1. rows = << >> /\ DOMAIN rows = {} /\ Listed[m]..(-1) = {}
      BY <1>2, <1>4
    <3>2. << >> = [d \in DOMAIN << >> |-> << >>[d]]
      OBVIOUS
    <3>3. rows = [d \in DOMAIN rows |-> rows[d]]
      BY <3>1, <3>2
    <3> QED BY <3>1, <3>3 DEF IsAnswer
  <2>2. Stored(m, Upsert(stored, rows), c)
    BY <1>2, <2>1, SpyLine, UpsertKept
  <2> QED BY <2>2 DEF rows
<1>5. CASE ~ (start >= today)
  <2> DEFINE a == First(start)
             b == Last(today, yahoo)
  <2>1. a \in Nat /\ b \in Int /\ a = start
        /\ (today <= yahoo + 1 => b = today - 1) /\ (today >= yahoo + 1 => b = yahoo)
    <3>1. a \in Nat /\ (start >= 0 => a = start)
      BY <1>3, FirstIs
    <3>2. /\ b \in Int
          /\ (today <= yahoo + 1 => b = today - 1) /\ (today >= yahoo + 1 => b = yahoo)
      BY <1>2, LastIs
    <3>3. start >= 0
      BY <1>1, <1>2, <1>3
    <3> QED BY <1>3, <3>1, <3>2, <3>3
  <2>2. IsAnswer(FetchYfinance(m, start, today, yahoo), a, b)
    BY <1>2, <1>3, SpyLine, YahooAnswer
  <2> HIDE DEF a, b
  <2>3. IsAnswer(rows, a, b) /\ Listed[m] <= a
    <3>1. a = IF a >= Listed[m] THEN a ELSE Listed[m]
      BY <1>1, <1>2, <1>3, <2>1
    <3> QED BY <1>2, <1>5, <2>1, <2>2, <3>1, RelabelledIs
  <2>4. b \in {c, c - 1, -1} /\ b <= c
    BY <1>2, <2>1 DEF Down
  <2>5. DOMAIN stored # {} => a > b \/ \E d \in DOMAIN stored : d \in (a - 1)..(b + 1)
    <3> SUFFICES ASSUME DOMAIN stored # {}, a <= b
                 PROVE  \E d \in DOMAIN stored : d \in (a - 1)..(b + 1)
      BY <2>1
    <3>1. PICK k \in DOMAIN stored : inc <= k
      BY <1>1
    <3>2. k \in 0..c /\ Listed[m] <= k
      BY DEF Stored
    <3>3. k \in (a - 1)..(b + 1)
      BY <1>1, <1>2, <1>3, <2>1, <2>4, <3>1, <3>2
    <3> QED BY <3>3
  <2>6. Stored(m, Upsert(stored, rows), c)
    BY <2>1, <2>3, <2>4, <2>5, SpyLine, UpsertKept
  <2> QED BY <2>6 DEF rows
<1> QED BY <1>4, <1>5

LEMMA ActionsKept ==
  ASSUME NEW stored, NEW c \in Nat, NEW from \in Nat, NEW end \in Nat, NEW line \in Lines,
         Stored(line, stored, c),
         line = Spy => from \in DOMAIN stored,
         line # Spy => \E d \in DOMAIN stored : d \in from..(end - 1)
  PROVE  Stored(line, Upsert(stored,
           IF line = Spy THEN FetchActions(line, from, end, c)
           ELSE Relabelled(line, FetchActions(line, from, end, c))), c)
<1> DEFINE answer == FetchActions(line, from, end, c)
           b == Last(end, c)
<1>1. /\ First(from) = from /\ b \in Int /\ b <= c
      /\ (end <= c + 1 => b = end - 1) /\ (end >= c + 1 => b = c)
  <2>1. First(from) = from
    BY FirstIs
  <2>2. /\ b \in Int
        /\ (end <= c + 1 => b = end - 1) /\ (end >= c + 1 => b = c)
    <3>1. end \in Int /\ c \in Int
      OBVIOUS
    <3> QED BY <3>1, LastIs
  <2> HIDE DEF b
  <2> QED BY <2>1, <2>2
<1>2. IsAnswer(answer, from, b)
  BY <1>1, ActionAnswer
<1>3. DOMAIN stored \subseteq 0..c
  BY DEF Stored
<1> HIDE DEF answer, b
<1>4. CASE line = Spy
  <2>1. from > b \/ from \in (from - 1)..(b + 1)
    BY <1>1
  <2>2. Stored(line, Upsert(stored, answer), c)
    BY <1>1, <1>2, <1>4, <2>1, SpyLine, UpsertKept
  <2> QED BY <1>4, <2>2 DEF answer
<1>5. CASE line # Spy
  <2>1. line \in Members /\ Listed[line] \in Nat
    BY <1>5, PriceAssumption DEF Lines
  <2>2. PICK a \in Nat : a = IF from >= Listed[line] THEN from ELSE Listed[line]
    BY <2>1
  <2>3. IsAnswer(Relabelled(line, answer), a, b) /\ Listed[line] <= a
    BY <1>1, <1>2, <2>1, <2>2, RelabelledIs
  <2>4. PICK d \in DOMAIN stored : d \in from..(end - 1)
    BY <1>5
  <2>5. Listed[line] <= d
    BY <2>1 DEF Stored
  <2>6. d \in (a - 1)..(b + 1)
    BY <1>1, <1>3, <2>1, <2>2, <2>4, <2>5
  <2>7. Stored(line, Upsert(stored, Relabelled(line, answer)), c)
    BY <1>1, <2>2, <2>3, <2>6, UpsertKept
  <2> QED BY <1>5, <2>7 DEF answer
<1> QED BY <1>4, <1>5

-----------------------------------------------------------------------------
(* Macro series.                                                           *)

LEMMA VintageIs ==
  ASSUME NEW s \in Series, NEW v \in Vintages[s]
  PROVE  v.rel \in Nat /\ v.obs \in 0..v.rel
BY MacroAssumption

LEMMA ChunkIs ==
  ASSUME NEW t \in Nat, NEW dates \in SUBSET (0..t), NEW c \in Chunks(dates)
  PROVE  Min(c) \in 0..t /\ Max(c) \in 0..t /\ \A r \in c : Min(c) <= r /\ r <= Max(c)
<1>1. PICK r \in dates : c = {q \in dates : Chunk(dates, q) = Chunk(dates, r)}
  BY DEF Chunks
<1>2. c \in SUBSET (0..t) /\ c \in SUBSET Nat /\ c # {}
  <2>1. r \in c
    BY <1>1
  <2>2. c \subseteq dates /\ dates \subseteq Nat
    BY <1>1
  <2> QED BY <2>1, <2>2
<1>3. Min(c) \in c /\ \A x \in c : Min(c) <= x
  BY <1>2, MinOf
<1>4. Max(c) \in c /\ \A x \in c : x <= Max(c)
  BY <1>2, MaxOf
<1> QED BY <1>2, <1>3, <1>4

LEMMA InChunk ==
  ASSUME NEW dates, NEW r \in dates
  PROVE  \E c \in Chunks(dates) : r \in c
<1> DEFINE c == {q \in dates : Chunk(dates, q) = Chunk(dates, r)}
<1>1. r \in c
  OBVIOUS
<1>2. c \in Chunks(dates)
  BY DEF Chunks
<1> QED BY <1>1, <1>2

\* What FRED answers for a window was in force on the day that it is dated.
LEMMA WindowRows ==
  ASSUME NEW s \in Series, NEW t \in Nat, NEW first \in 0..t, NEW last \in 0..t,
         NEW r \in FredRows(ReleaseWindow(s, first, last))
  PROVE  FredRow(s, r, t)
<1>1. PICK a \in ReleaseWindow(s, first, last) :
         r = [obs |-> a.obs, rel |-> a.rel, value |-> a.value, src |-> "fred"]
  BY DEF FredRows
<1>2. PICK v \in Vintages[s] :
         /\ v.rel <= last
         /\ ~ \E x \in Vintages[s] : x.obs = v.obs /\ v.rel < x.rel /\ x.rel <= first
         /\ a = [obs |-> v.obs, rel |-> Max({v.rel, first}), value |-> v.rel]
  BY DEF ReleaseWindow
<1>3. v.rel \in Nat /\ v.obs \in 0..v.rel /\ \A x \in Vintages[s] : x.rel \in Nat
  BY VintageIs
<1>4. PICK day : day = Max({v.rel, first})
  OBVIOUS
<1>5. v.rel \in Int /\ first \in Int
  BY <1>3
<1>6. day = IF v.rel >= first THEN v.rel ELSE first
  BY <1>4, <1>5, MaxPair
<1>7. day \in 0..t /\ v.rel <= day
  BY <1>2, <1>3, <1>6
<1>8. Newest(s, v, day)
  <2> SUFFICES ASSUME NEW x \in Vintages[s], x.obs = v.obs, x.rel <= day PROVE x.rel <= v.rel
    BY <1>7 DEF Newest
  <2> QED BY <1>2, <1>3, <1>6
<1>9. r = Row(v.obs, day, v.rel, "fred") /\ r.rel = day /\ r.obs = v.obs
  BY <1>1, <1>2, <1>4 DEF Row
<1>10. v.obs \in 0..t
  BY <1>2, <1>3
<1> QED BY <1>7, <1>8, <1>9, <1>10 DEF FredRow

LEMMA WindowComplete ==
  ASSUME NEW s \in Series, NEW t \in Nat, NEW first \in 0..t, NEW last \in 0..t,
         NEW v \in Vintages[s], first <= v.rel, v.rel <= last
  PROVE  Row(v.obs, v.rel, v.rel, "fred") \in FredRows(ReleaseWindow(s, first, last))
<1>1. v.rel \in Int /\ first \in Int /\ \A x \in Vintages[s] : x.rel \in Int
  BY VintageIs
<1>2. Max({v.rel, first}) = v.rel
  BY <1>1, MaxPair
<1>3. ~ \E x \in Vintages[s] : x.obs = v.obs /\ v.rel < x.rel /\ x.rel <= first
  BY <1>1
<1>4. [obs |-> v.obs, rel |-> v.rel, value |-> v.rel] \in ReleaseWindow(s, first, last)
  BY <1>2, <1>3 DEF ReleaseWindow
<1> QED BY <1>4 DEF FredRows, Row

\* A fetch from a day on brings true rows, and every release of these days.
LEMMA FetchIs ==
  ASSUME NEW s \in Series, NEW from \in Int, NEW t \in Nat
  PROVE  /\ \A r \in FetchSeries(s, from, t) : FredRow(s, r, t)
         /\ \A v \in Vintages[s] : from <= v.rel /\ v.rel <= t =>
              Row(v.obs, v.rel, v.rel, "fred") \in FetchSeries(s, from, t)
<1> DEFINE dates == VintageDates(s, from, t)
<1>1. dates \in SUBSET (0..t)
  BY VintageIs DEF VintageDates
<1>2. ASSUME NEW v \in Vintages[s], from <= v.rel, v.rel <= t PROVE v.rel \in dates
  BY <1>2 DEF VintageDates
<1>3. FetchSeries(s, from, t) =
        UNION {FredRows(ReleaseWindow(s, Min(c), Max(c))) : c \in Chunks(dates)}
  BY DEF FetchSeries
<1> HIDE DEF dates
<1>4. ASSUME NEW r \in FetchSeries(s, from, t) PROVE FredRow(s, r, t)
  <2>1. PICK c \in Chunks(dates) : r \in FredRows(ReleaseWindow(s, Min(c), Max(c)))
    BY <1>3
  <2>2. Min(c) \in 0..t /\ Max(c) \in 0..t
    BY <1>1, ChunkIs
  <2> QED BY <2>1, <2>2, WindowRows
<1>5. ASSUME NEW v \in Vintages[s], from <= v.rel, v.rel <= t
      PROVE  Row(v.obs, v.rel, v.rel, "fred") \in FetchSeries(s, from, t)
  <2>1. PICK c \in Chunks(dates) : v.rel \in c
    BY <1>2, <1>5, InChunk
  <2>2. Min(c) \in 0..t /\ Max(c) \in 0..t /\ Min(c) <= v.rel /\ v.rel <= Max(c)
    BY <1>1, <2>1, ChunkIs
  <2>3. Row(v.obs, v.rel, v.rel, "fred") \in FredRows(ReleaseWindow(s, Min(c), Max(c)))
    BY <2>2, WindowComplete
  <2> QED BY <1>3, <2>3
<1> QED BY <1>4, <1>5

\* Two rows of FRED with the same key are the same.
LEMMA OneRow ==
  ASSUME NEW s \in Series, NEW t, NEW n, FredRow(s, n, t),
         NEW v \in Vintages[s], n.obs = v.obs, n.rel = v.rel
  PROVE  n = Row(v.obs, v.rel, v.rel, "fred")
<1>1. PICK w \in Vintages[s] : Newest(s, w, n.rel) /\ n = Row(w.obs, n.rel, w.rel, "fred")
  BY DEF FredRow
<1>2. w.obs = v.obs
  BY <1>1 DEF Row
<1>3. w.rel \in Nat /\ v.rel \in Nat
  BY VintageIs
<1>4. w.rel = v.rel
  BY <1>1, <1>2, <1>3 DEF Newest
<1> QED BY <1>1, <1>2, <1>4

LEMMA FredLater ==
  ASSUME NEW s \in Series, NEW r, NEW t \in Int, NEW u \in Int, t <= u, FredRow(s, r, t)
  PROVE  FredRow(s, r, u)
BY DEF FredRow

LEMMA KnownLater ==
  ASSUME NEW s \in Series, NEW rows, NEW fetch, NEW t \in Int, NEW u \in Int, t <= u,
         Known(s, rows, fetch, t)
  PROVE  Known(s, rows, fetch, u)
BY DEF Known, TreasuryRow

LEMMA RefreshedKnown ==
  ASSUME NEW s \in Series, NEW rows, NEW fetch \in 0..LastDay, NEW t \in 0..LastDay,
         fetch <= t, Known(s, rows, fetch, t)
  PROVE  Known(s, Refreshed(s, rows, t), t, t)
<1> DEFINE fred == {r \in rows : r.src = "fred"}
           from == IncrementalFrom(rows, t)
<1> LastDay \in Nat /\ ReleaseOverlap \in Nat
  BY MacroAssumption
<1>1. \A r \in fred : r.rel \in 0..fetch
  BY DEF Known, FredRow, TreasuryRow, Row
<1>2. from \in (-ReleaseOverlap)..LastDay /\ (from <= fetch \/ from = 0)
  <2>1. CASE fred = {}
    BY <2>1 DEF IncrementalFrom
  <2>2. CASE fred # {}
    <3> DEFINE rels == {r.rel : r \in fred}
    <3>1. rels \in SUBSET (0..fetch) /\ rels # {}
      BY <1>1, <2>2
    <3>2. from = Max(rels) - ReleaseOverlap
      BY <2>2 DEF IncrementalFrom
    <3> HIDE DEF rels, from
    <3>3. Max(rels) \in 0..fetch
      <4>1. fetch \in Nat
        OBVIOUS
      <4> QED BY <3>1, <4>1, MaxOf
    <3> QED BY <3>2, <3>3
  <2> QED BY <2>1, <2>2
<1> HIDE DEF fred, from
<1> DEFINE new == FetchSeries(s, from, t)
<1>3. Refreshed(s, rows, t) = UpsertMacro(rows, new)
  BY <1>2 DEF Refreshed, Fetched, from
<1>4. /\ \A r \in new : FredRow(s, r, t)
      /\ \A v \in Vintages[s] : from <= v.rel /\ v.rel <= t =>
           Row(v.obs, v.rel, v.rel, "fred") \in new
  <2>1. from \in Int /\ t \in Nat
    BY <1>2
  <2> QED BY <2>1, FetchIs
<1> HIDE DEF new
<1>5. ASSUME NEW r \in UpsertMacro(rows, new) PROVE FredRow(s, r, t) \/ TreasuryRow(s, r, t)
  <2>1. CASE r \in new
    BY <1>4, <2>1
  <2>2. CASE r \in rows
    <3>1. FredRow(s, r, fetch) \/ TreasuryRow(s, r, t)
      BY <2>2 DEF Known
    <3> QED BY <3>1, FredLater
  <2> QED BY <2>1, <2>2 DEF UpsertMacro
<1>6. ASSUME NEW v \in Vintages[s], v.rel <= t
      PROVE  Row(v.obs, v.rel, v.rel, "fred") \in UpsertMacro(rows, new)
  <2>1. v.rel \in Nat
    BY VintageIs
  <2> PICK r : r = Row(v.obs, v.rel, v.rel, "fred")
    OBVIOUS
  <2>2. CASE from <= v.rel
    BY <1>4, <1>6, <2>2 DEF UpsertMacro
  <2>3. CASE ~ (from <= v.rel)
    <3>1. v.rel <= fetch
      BY <1>2, <2>1, <2>3
    <3>2. r \in rows
      BY <3>1 DEF Known
    <3>3. CASE \E n \in new : <<n.obs, n.rel, n.src>> = <<r.obs, r.rel, r.src>>
      <4>1. PICK n \in new : n.obs = r.obs /\ n.rel = r.rel
        BY <3>3
      <4>2. n.obs = v.obs /\ n.rel = v.rel
        BY <4>1 DEF Row
      <4>3. n = r
        BY <1>4, <4>2, OneRow
      <4> QED BY <4>3 DEF UpsertMacro
    <3>4. CASE ~ \E n \in new : <<n.obs, n.rel, n.src>> = <<r.obs, r.rel, r.src>>
      BY <3>2, <3>4 DEF UpsertMacro
    <3> QED BY <3>3, <3>4
  <2> QED BY <2>2, <2>3
<1>7. Known(s, UpsertMacro(rows, new), t, t)
  BY <1>5, <1>6 DEF Known
<1> QED BY <1>3, <1>7

LEMMA TreasuryKnown ==
  ASSUME NEW s \in Series, NEW rows, NEW fetch, NEW t \in Nat,
         Known(s, rows, fetch, t), NEW new \in {TreasuryRows(s, t), {}}
  PROVE  Known(s, UpsertMacro(rows, new), fetch, t)
<1>1. \A r \in new : TreasuryRow(s, r, t) /\ r.src = "treasury"
  <2>1. CASE s \notin Yields
    BY <2>1 DEF TreasuryRows
  <2>2. CASE s \in Yields
    BY <2>2 DEF TreasuryRows, TreasuryRow, Row
  <2> QED BY <2>1, <2>2
<1>2. \A r \in UpsertMacro(rows, new) : FredRow(s, r, fetch) \/ TreasuryRow(s, r, t)
  BY <1>1 DEF UpsertMacro, Known
<1>3. ASSUME NEW v \in Vintages[s], v.rel <= fetch
      PROVE  Row(v.obs, v.rel, v.rel, "fred") \in UpsertMacro(rows, new)
  <2> PICK r : r = Row(v.obs, v.rel, v.rel, "fred")
    OBVIOUS
  <2>1. r \in rows /\ r.src = "fred"
    BY <1>3 DEF Known, Row
  <2>2. ~ \E n \in new : <<n.obs, n.rel, n.src>> = <<r.obs, r.rel, r.src>>
    BY <1>1, <2>1
  <2> QED BY <2>1, <2>2 DEF UpsertMacro
<1> QED BY <1>2, <1>3 DEF Known

\* Up to the last complete fetch the rows answer what FRED had published.
LEMMA KnownReads ==
  ASSUME NEW s \in Series, NEW rows, NEW fetch \in 0..LastDay, NEW t \in Int,
         Known(s, rows, fetch, t), NEW d \in 0..fetch, NEW v \in Vintages[s]
  PROVE  \/ Pit(rows, v.obs, d) = Published(s, v.obs, d)
         \/ /\ Published(s, v.obs, d) = NoValue /\ s \in Yields /\ v.obs <= d
            /\ Pit(rows, v.obs, d) = TreasuryValue
<1> DEFINE obs == v.obs
           known == {r \in rows : r.obs = obs /\ r.rel <= d /\ obs <= d}
           newest == {r \in known : \A q \in known : q.rel <= r.rel}
           Of(src) == {r.value : r \in {q \in newest : q.src = src}}
           out == {x \in Vintages[s] : x.obs = obs /\ x.rel <= d /\ obs <= d}
<1> d \in Nat /\ obs \in Nat
  BY VintageIs, MacroAssumption
<1>1. /\ known = {} => Pit(rows, obs, d) = NoValue
      /\ known # {} => Pit(rows, obs, d) =
           CHOOSE x \in IF Of("fred") # {} THEN Of("fred") ELSE Of("treasury") : TRUE
  BY Zenon DEF Pit
<1>2. /\ out = {} => Published(s, obs, d) = NoValue
      /\ out # {} => Published(s, obs, d) = Max({x.rel : x \in out})
  BY Zenon DEF Published
<1>3. ASSUME NEW r \in known, FredRow(s, r, fetch)
      PROVE  \E w \in out : Newest(s, w, r.rel) /\ r.value = w.rel /\ r.src = "fred"
  <2>1. PICK w \in Vintages[s] : Newest(s, w, r.rel) /\ r = Row(w.obs, r.rel, w.rel, "fred")
    BY <1>3 DEF FredRow
  <2>2. w.rel <= r.rel /\ w.obs = obs /\ r.value = w.rel /\ r.src = "fred" /\ r.rel <= d /\ obs <= d
    BY <2>1 DEF Newest, Row
  <2>3. w.rel \in Nat /\ r.rel \in Int
    BY <1>3, VintageIs DEF FredRow
  <2>4. w.rel <= d
    BY <2>2, <2>3
  <2> QED BY <2>1, <2>2, <2>4
<1>4. ASSUME NEW r \in known, TreasuryRow(s, r, t)
      PROVE  s \in Yields /\ r.rel = obs /\ r.value = TreasuryValue /\ r.src = "treasury" /\ obs <= d
  BY <1>4 DEF TreasuryRow, Row
<1>5. \A r \in known : FredRow(s, r, fetch) \/ TreasuryRow(s, r, t)
  BY DEF Known
<1>6. CASE out = {}
  <2>1. \A r \in known : TreasuryRow(s, r, t)
    BY <1>3, <1>5, <1>6
  <2>2. CASE known = {}
    BY <1>1, <1>2, <1>6, <2>2
  <2>3. CASE known # {}
    <3>1. PICK r : r \in known
      BY <2>3
    <3>2. \A q \in known : q.rel = obs /\ q.value = TreasuryValue /\ q.src = "treasury"
      BY <1>4, <2>1
    <3> HIDE DEF known
    <3>3. newest = known
      BY <3>2
    <3> HIDE DEF newest
    <3>4. Of("fred") = {}
      BY <3>2, <3>3
    <3>5. Of("treasury") = {TreasuryValue}
      BY <3>1, <3>2, <3>3
    <3> HIDE DEF Of
    <3>6. Pit(rows, obs, d) = CHOOSE x \in {TreasuryValue} : TRUE
      BY <1>1, <2>3, <3>4, <3>5
    <3>7. Pit(rows, obs, d) = TreasuryValue
      BY <3>6
    <3>8. s \in Yields /\ obs <= d
      BY <1>4, <2>1, <3>1
    <3> QED BY <1>2, <1>6, <3>7, <3>8
  <2> QED BY <2>2, <2>3
<1>7. CASE out # {}
  <2> DEFINE rels == {x.rel : x \in out}
             M == Max(rels)
  <2>1. rels \in SUBSET (0..d) /\ rels # {}
    <3>1. \A x \in out : x.rel \in 0..d
      BY VintageIs
    <3> QED BY <1>7, <3>1
  <2>2. M \in rels /\ \A x \in rels : x <= M
    <3> HIDE DEF rels
    <3> QED BY <2>1, MaxOf
  <2>3. PICK p \in out : p.rel = M
    BY <2>2
  <2>4. \A x \in out : x.rel <= M /\ x.rel \in Nat
    BY <2>2, VintageIs
  <2>5. M \in Nat /\ M <= d /\ obs <= M /\ obs <= d
    <3>1. p.rel \in Nat /\ p.obs <= p.rel /\ p.obs = obs /\ p.rel <= d
      BY VintageIs
    <3> QED BY <2>3, <3>1
  <2> HIDE DEF M, rels
  <2>6. PICK row : row = Row(obs, M, M, "fred")
    OBVIOUS
  <2>7. row \in known /\ row.rel = M /\ row.src = "fred" /\ row.value = M
    <3>1. p.rel <= fetch /\ p.obs = obs
      BY <2>3, <2>5
    <3>2. row \in rows
      BY <2>3, <2>6, <3>1 DEF Known
    <3>3. row.obs = obs /\ row.rel = M /\ row.src = "fred" /\ row.value = M
      BY <2>6 DEF Row
    <3> QED BY <2>5, <3>2, <3>3
  <2>8. ASSUME NEW r \in known, r.src = "fred", r.rel >= M PROVE r.value = M
    <3>1. FredRow(s, r, fetch)
      BY <1>4, <1>5, <2>8
    <3>2. PICK w \in out : Newest(s, w, r.rel) /\ r.value = w.rel
      BY <1>3, <3>1
    <3>3. p \in Vintages[s] /\ p.obs = w.obs /\ p.rel <= r.rel
      BY <2>3, <2>8
    <3>4. p.rel <= w.rel
      BY <3>2, <3>3 DEF Newest
    <3> QED BY <2>3, <2>4, <2>5, <3>2, <3>4
  <2>9. \A r \in known : r.rel \in 0..d
    <3> SUFFICES ASSUME NEW r \in known PROVE r.rel \in 0..d
      OBVIOUS
    <3>1. CASE FredRow(s, r, fetch)
      BY <3>1 DEF FredRow
    <3>2. CASE TreasuryRow(s, r, t)
      BY <1>4, <3>2
    <3> QED BY <1>5, <3>1, <3>2
  <2> HIDE DEF known
  <2>10. PICK top \in known : \A q \in known : q.rel <= top.rel
    <3> DEFINE days == {r.rel : r \in known}
    <3>1. days \in SUBSET (0..d) /\ days # {}
      BY <2>7, <2>9
    <3>2. Max(days) \in days /\ \A x \in days : x <= Max(days)
      <4> HIDE DEF days
      <4> QED BY <3>1, MaxOf
    <3>3. PICK r \in known : r.rel = Max(days)
      BY <3>2
    <3> QED BY <3>2, <3>3
  <2>11. top.rel >= M /\ top \in newest
    BY <2>7, <2>10
  <2>12. \E r \in newest : r.src = "fred"
    <3>1. CASE FredRow(s, top, fetch)
      BY <1>3, <2>11, <3>1
    <3>2. CASE TreasuryRow(s, top, t)
      <4>1. top.rel = M
        BY <1>4, <2>5, <2>9, <2>11, <3>2
      <4>2. row \in newest
        BY <2>7, <2>10, <4>1
      <4> QED BY <2>7, <4>2
    <3> QED BY <1>5, <3>1, <3>2
  <2>13. \A r \in newest : r \in known /\ r.rel >= M
    BY <2>7, <2>9, <2>5
  <2> HIDE DEF newest
  <2>14. Of("fred") = {M}
    BY <2>8, <2>12, <2>13
  <2> HIDE DEF Of
  <2>15. known # {}
    BY <2>7
  <2>16. Pit(rows, obs, d) = CHOOSE x \in {M} : TRUE
    BY <1>1, <2>14, <2>15
  <2>17. Pit(rows, obs, d) = M
    BY <2>16
  <2>18. Published(s, obs, d) = M
    BY <1>2, <1>7 DEF M, rels
  <2> QED BY <2>17, <2>18
<1> QED BY <1>6, <1>7

-----------------------------------------------------------------------------
(* The clock, and what each step leaves alone.                             *)

LEMMA Now ==
  ASSUME \E d \in 0..LastDay : clock \in {2 * d, 2 * d + 1}
  PROVE  /\ Completed \in 0..LastDay /\ clock \in {2 * Completed, 2 * Completed + 1}
         /\ Today \in {Completed, Completed + 1}
         /\ clock \in 0..(2 * LastDay + 1)
<1>1. PICK d \in 0..LastDay : clock \in {2 * d, 2 * d + 1}
  OBVIOUS
<1>2. LastDay \in Nat /\ clock \in Nat
  BY <1>1, MacroAssumption
<1>3. Completed = d
  BY <1>1, <1>2, DayOf DEF Completed
<1>4. Today \in {d, d + 1}
  BY <1>3 DEF Today
<1> QED BY <1>1, <1>2, <1>3, <1>4

ClockStep ==
  clock' = clock \/ Tick

LEMMA StepClock ==
  ASSUME [Next]_vars
  PROVE  ClockStep
<1>1. UNCHANGED vars => clock' = clock
  BY DEF vars
<1>2. Step => clock' = clock
  BY DEF Step, Check, Finish, Benchmark, Ingest, Universe, Macro, Member, MembersDone,
         Readiness, Fail, Report, Recover
<1>3. (\E force \in BOOLEAN : Start(force)) \/ Refused \/ Kill \/ SquatterExits \/ RefreshActions
      => clock' = clock
  BY DEF Start, Refused, Kill, SquatterExits, RefreshActions
<1> QED BY <1>1, <1>2, <1>3 DEF Next, ClockStep

LEMMA ClockMoves ==
  ASSUME \E d \in 0..LastDay : clock \in {2 * d, 2 * d + 1}, [Next]_vars
  PROVE  /\ (\E d \in 0..LastDay : clock \in {2 * d, 2 * d + 1})'
         /\ Completed' \in 0..LastDay /\ Completed <= Completed'
         /\ clock' = clock => Completed' = Completed
<1>1. PICK d \in 0..LastDay : clock \in {2 * d, 2 * d + 1}
  OBVIOUS
<1>2. LastDay \in Nat /\ d \in Nat /\ clock \in Nat
  BY <1>1, MacroAssumption
<1>3. Completed = d
  BY <1>1, <1>2, DayOf DEF Completed
<1>4. CASE clock' = clock
  <2>1. clock' \in {2 * d, 2 * d + 1} /\ clock' \in Nat
    BY <1>1, <1>2, <1>4
  <2>2. Completed' = d
    BY <2>1, DayOf DEF Completed
  <2> QED BY <1>2, <1>3, <2>1, <2>2
<1>5. CASE Tick
  <2>1. clock <= 2 * LastDay /\ clock' = clock + 1
    BY <1>5 DEF Tick
  <2>2. PICK e \in {d, d + 1} : e \in 0..LastDay /\ clock' \in {2 * e, 2 * e + 1}
    <3>1. CASE clock = 2 * d
      BY <1>2, <2>1, <3>1
    <3>2. CASE clock = 2 * d + 1
      <4>1. d + 1 \in 0..LastDay /\ clock' = 2 * (d + 1)
        BY <1>2, <2>1, <3>2
      <4> QED BY <4>1
    <3> QED BY <1>1, <3>1, <3>2
  <2>3. clock' \in Nat
    BY <1>2, <2>1
  <2>4. Completed' = e
    BY <2>2, <2>3, DayOf DEF Completed
  <2>5. clock' # clock
    BY <1>2, <2>1
  <2> QED BY <1>2, <1>3, <2>2, <2>4, <2>5
<1> QED BY <1>4, <1>5, StepClock DEF ClockStep

LEMMA PricesMove ==
  ASSUME [Next]_vars
  PROVE  prices' = prices \/ Benchmark \/ Member \/ RefreshActions
<1>1. UNCHANGED vars => prices' = prices
  BY DEF vars
<1>2. Step => prices' = prices \/ Benchmark \/ Member
  BY DEF Step, Check, Finish, Universe, Macro, MembersDone, Readiness, Fail, Report, Recover, data
<1>3. (\E force \in BOOLEAN : Start(force)) \/ Refused \/ Kill \/ SquatterExits \/ Tick
      => prices' = prices
  BY DEF Start, Refused, Kill, SquatterExits, Tick, data
<1> QED BY <1>1, <1>2, <1>3 DEF Next

LEMMA MacroMoves ==
  ASSUME [Next]_vars
  PROVE  (macro' = macro /\ fetched' = fetched) \/ (Macro /\ clock' = clock)
<1>1. UNCHANGED vars => macro' = macro /\ fetched' = fetched
  BY DEF vars
<1>2. Step => (macro' = macro /\ fetched' = fetched) \/ (Macro /\ clock' = clock)
  BY DEF Step, Check, Finish, Benchmark, Ingest, Universe, Macro, Member, MembersDone,
         Readiness, Fail, Report, Recover, data
<1>3. (\E force \in BOOLEAN : Start(force)) \/ Refused \/ Kill \/ SquatterExits \/ Tick
      \/ RefreshActions => macro' = macro /\ fetched' = fetched
  BY DEF Start, Refused, Kill, SquatterExits, Tick, RefreshActions, data
<1> QED BY <1>1, <1>2, <1>3 DEF Next


-----------------------------------------------------------------------------
(* The stored prices.                                                      *)

LEMMA PricesStep ==
  ASSUME Rest, PricesKept, RunKept, [Next]_vars
  PROVE  PricesKept'
<1> PICK c \in Nat : c = Completed
  BY Now, MacroAssumption DEF Rest
<1> PICK e \in Int : e = Completed' /\ c <= e /\ (clock' = clock => e = c)
  <2>1. Completed' \in 0..LastDay /\ Completed <= Completed'
        /\ (clock' = clock => Completed' = Completed)
    BY ClockMoves DEF Rest
  <2> QED BY <2>1
<1>1. DOMAIN prices = Lines /\ \A l \in Lines : Stored(l, prices[l], c) /\ Stored(l, prices[l], e)
  BY StoredLater DEF PricesKept
<1>2. SUFFICES DOMAIN prices' = Lines /\ \A l \in Lines : Stored(l, prices'[l], e)
  BY DEF PricesKept
<1>3. CASE prices' = prices
  BY <1>1, <1>3
<1>4. ASSUME NEW l \in Lines, NEW rows, prices' = [prices EXCEPT ![l] = Upsert(@, rows)],
             Stored(l, Upsert(prices[l], rows), c), clock' = clock
      PROVE  DOMAIN prices' = Lines /\ \A k \in Lines : Stored(k, prices'[k], e)
  BY <1>1, <1>4
<1>5. CASE Benchmark
  <2>1. PICK yahoo \in Answers, tiingo \in TiingoAnswers, stooq \in {Completed, Down} :
          Ingest(Spy, BenchmarkRows(prices[Spy], Completed, yahoo, tiingo, stooq))
    BY <1>5 DEF Benchmark
  <2>2. yahoo \in {c, c - 1, Down} /\ tiingo \in {c, Down} /\ stooq \in {c, Down}
    BY <2>1 DEF Answers, TiingoAnswers
  <2>3. Stored(Spy, Upsert(prices[Spy], BenchmarkRows(prices[Spy], c, yahoo, tiingo, stooq)), c)
    BY <1>1, <2>1, <2>2, SpyLine, BenchmarkKept
  <2> QED BY <1>4, <2>1, <2>3, SpyLine DEF Ingest
<1>6. CASE Member
  <2> DEFINE m == Head(run.todo)
  <2>1. PICK yahoo \in Answers : Ingest(m, MemberRows(m, prices[m], Completed, Today, yahoo))
    BY <1>6 DEF Member
  <2>2. yahoo \in {c, c - 1, Down} /\ Today \in {c, c + 1}
    BY <2>1, Now DEF Answers, Rest
  <2>3. m \in Members
    <3>1. run # NoRun /\ run.todo # << >>
      BY <1>6 DEF Member, Running, NoRun
    <3>2. run.todo \in Seq(Members)
      BY <3>1 DEF RunKept, RunType
    <3> QED BY <3>1, <3>2
  <2> HIDE DEF m
  <2>4. Stored(m, Upsert(prices[m], MemberRows(m, prices[m], c, Today, yahoo)), c)
    BY <1>1, <2>1, <2>2, <2>3, SpyLine, MemberKept
  <2> QED BY <1>4, <2>1, <2>3, <2>4, SpyLine DEF Ingest
<1>7. CASE RefreshActions
  <2>1. PICK w \in RepairWindows, named \in SUBSET Lines, down \in SUBSET Lines :
          LET lines == Candidates(prices, w[1], w[2]) \cup named
              rows(l) == IF l = Spy THEN FetchActions(l, w[1], w[2], Completed)
                         ELSE Relabelled(l, FetchActions(l, w[1], w[2], Completed)) IN
          /\ w[1] \in DOMAIN prices[Spy] /\ named \subseteq {Spy}
          /\ prices' = [l \in Lines |-> IF l \in lines \ down THEN Upsert(prices[l], rows(l)) ELSE prices[l]]
    BY <1>7 DEF RefreshActions
  <2>2. w[1] \in Nat /\ w[2] \in Nat /\ clock' = clock
    BY <1>7, DailyAssumption DEF RefreshActions
  <2>3. DOMAIN prices' = Lines
    BY <2>1
  <2>4. ASSUME NEW l \in Lines PROVE Stored(l, prices'[l], e)
    <3> DEFINE rows == IF l = Spy THEN FetchActions(l, w[1], w[2], c)
                       ELSE Relabelled(l, FetchActions(l, w[1], w[2], c))
    <3>1. CASE prices'[l] = prices[l]
      BY <1>1, <3>1
    <3>2. CASE prices'[l] # prices[l]
      <4>1. l \in Candidates(prices, w[1], w[2]) \cup named /\ prices'[l] = Upsert(prices[l], rows)
        BY <2>1, <3>2
      <4>2. l # Spy => \E d \in DOMAIN prices[l] : d \in w[1]..(w[2] - 1)
        BY <2>1, <4>1 DEF Candidates
      <4>3. l = Spy => w[1] \in DOMAIN prices[l]
        BY <2>1
      <4>4. Stored(l, Upsert(prices[l], rows), c)
        BY <1>1, <2>2, <4>2, <4>3, ActionsKept
      <4> QED BY <2>2, <4>1, <4>4
    <3> QED BY <3>1, <3>2
  <2> QED BY <2>3, <2>4
<1> QED BY <1>3, <1>5, <1>6, <1>7, PricesMove

-----------------------------------------------------------------------------
(* The stored macro series.                                                *)

LEMMA MacroStep ==
  ASSUME Rest, MacroKept, [Next]_vars
  PROVE  MacroKept'
<1> PICK c \in Nat : c = Completed /\ c \in 0..LastDay
  BY Now, MacroAssumption DEF Rest
<1> PICK e \in Int : e = Completed' /\ c <= e /\ (clock' = clock => e = c)
  <2>1. Completed' \in 0..LastDay /\ Completed <= Completed'
        /\ (clock' = clock => Completed' = Completed)
    BY ClockMoves DEF Rest
  <2> QED BY <2>1
<1>1. /\ DOMAIN macro = Series /\ fetched \in [Series -> 0..LastDay]
      /\ \A s \in Series : fetched[s] <= c /\ Known(s, macro[s], fetched[s], c)
  BY DEF MacroKept
<1>2. CASE macro' = macro /\ fetched' = fetched
  <2>1. \A s \in Series : fetched[s] <= e /\ Known(s, macro[s], fetched[s], e)
    <3> SUFFICES ASSUME NEW s \in Series PROVE fetched[s] <= e /\ Known(s, macro[s], fetched[s], e)
      OBVIOUS
    <3>1. fetched[s] \in Int /\ fetched[s] <= c /\ Known(s, macro[s], fetched[s], c)
      BY <1>1
    <3>2. c \in Int /\ c <= e
      OBVIOUS
    <3> QED BY <3>1, <3>2, KnownLater
  <2> QED BY <1>1, <1>2, <2>1 DEF MacroKept
<1>3. CASE Macro /\ clock' = clock
  <2>1. PICK down \in SUBSET Series, treasury \in BOOLEAN :
          /\ macro' = [s \in Series |->
               UpsertMacro(IF s \in down THEN macro[s] ELSE Refreshed(s, macro[s], c),
                           IF treasury THEN TreasuryRows(s, c) ELSE {})]
          /\ fetched' = [s \in Series |-> IF s \in down THEN fetched[s] ELSE c]
    BY <1>3 DEF Macro
  <2>2. ASSUME NEW s \in Series
        PROVE  fetched'[s] \in 0..LastDay /\ fetched'[s] <= e /\ Known(s, macro'[s], fetched'[s], e)
    <3>1. PICK new \in {TreasuryRows(s, c), {}} : new = IF treasury THEN TreasuryRows(s, c) ELSE {}
      OBVIOUS
    <3>2. PICK rows : rows = IF s \in down THEN macro[s] ELSE Refreshed(s, macro[s], c)
      OBVIOUS
    <3>3. fetched'[s] \in 0..LastDay /\ fetched'[s] <= c /\ Known(s, rows, fetched'[s], c)
      <4>1. CASE s \in down
        BY <1>1, <2>1, <3>2, <4>1
      <4>2. CASE s \notin down
        <5>1. rows = Refreshed(s, macro[s], c) /\ fetched'[s] = c
          BY <2>1, <3>2, <4>2
        <5>2. fetched[s] \in 0..LastDay /\ fetched[s] <= c /\ Known(s, macro[s], fetched[s], c)
          BY <1>1
        <5> QED BY <5>1, <5>2, RefreshedKnown
      <4> QED BY <4>1, <4>2
    <3>4. Known(s, UpsertMacro(rows, new), fetched'[s], c)
      BY <3>1, <3>3, TreasuryKnown
    <3>5. macro'[s] = UpsertMacro(rows, new) /\ e = c
      BY <1>3, <2>1, <3>1, <3>2
    <3> QED BY <3>3, <3>4, <3>5
  <2>3. DOMAIN macro' = Series /\ DOMAIN fetched' = Series /\ fetched' = [s \in Series |-> fetched'[s]]
    BY <2>1
  <2>4. fetched' \in [Series -> 0..LastDay]
    BY <2>2, <2>3
  <2> QED BY <2>2, <2>3, <2>4 DEF MacroKept
<1> QED BY <1>2, <1>3, MacroMoves

-----------------------------------------------------------------------------
(* The rest of the state, and the run.                                     *)

LEMMA FaultsTyped ==
  ASSUME faults \in 0..MaxFaults, NEW n \in Nat, Failing(n)
  PROVE  faults' \in 0..MaxFaults
BY DailyAssumption DEF Failing

LEMMA MaxUp ==
  ASSUME NEW n \in Nat, NEW a \in 0..n, NEW b \in 0..n
  PROVE  Max({a, b}) \in 0..n
<1>1. a \in Int /\ b \in Int
  OBVIOUS
<1> QED BY <1>1, MaxPair

LEMMA RunIs ==
  ASSUME RunKept, run # NoRun
  PROVE  /\ run \in RunType /\ run.target \in 0..LastDay
         /\ run.pc \in Steps /\ run.todo \in Seq(Members) /\ run.streak \in Nat
BY DEF RunKept, RunType

LEMMA Active ==
  ASSUME NEW pc \in Steps, Running(pc)
  PROVE  run # NoRun
BY DEF Running, NoRun, Steps

LEMMA RestStep ==
  ASSUME Rest, RunKept, [Next]_vars
  PROVE  Rest'
<1>1. (\E d \in 0..LastDay : clock \in {2 * d, 2 * d + 1})'
  BY ClockMoves DEF Rest
<1>2. Completed \in 0..LastDay
  BY Now DEF Rest
<1> DEFINE Others == <<universe, job, certified, incident, squatter, faults, repairs>>
<1>3. CASE UNCHANGED Others
  BY <1>1, <1>3 DEF Rest
<1>4. ASSUME UNCHANGED <<incident, squatter, repairs>>,
             universe' \in 0..LastDay, faults' \in 0..MaxFaults,
             job' \in [state : {"running", "success", "failed"}, target : 0..LastDay],
             certified' \subseteq 0..LastDay
      PROVE  Rest'
  BY <1>1, <1>4 DEF Rest
<1>5. \A n \in Nat : Failing(n) => faults' \in 0..MaxFaults
  BY FaultsTyped DEF Rest
<1>6. ASSUME NEW state \in {"success", "failed"}, NEW report, Finish(state, report), run # NoRun,
             faults' = faults
      PROVE  Rest'
  <2>1. universe' = universe /\ UNCHANGED <<incident, squatter, repairs>>
    BY <1>6 DEF Finish, data
  <2>2. job' \in [state : {"running", "success", "failed"}, target : 0..LastDay]
    BY <1>6 DEF Finish, Rest
  <2>3. certified' \subseteq 0..LastDay
    BY <1>6, RunIs DEF Finish, Rest
  <2> QED BY <1>4, <1>6, <2>1, <2>2, <2>3 DEF Rest
<1>7. ASSUME NEW force \in BOOLEAN, Start(force) PROVE Rest'
  BY <1>1, <1>2, <1>7 DEF Rest, Start, data
<1>8. CASE Refused
  BY <1>1, <1>8 DEF Rest, Refused, data
<1>9. CASE Check
  <2>1. run # NoRun
    BY <1>9, Active DEF Check, Steps
  <2>2. CASE Finish("success", "recover") /\ faults' = faults
    BY <1>6, <2>1, <2>2
  <2>3. CASE ~ Finish("success", "recover")
    BY <1>3, <1>9, <2>3 DEF Check, data
  <2> QED BY <1>9, <2>2, <2>3 DEF Check
<1>10. CASE Readiness
  <2>1. run # NoRun
    BY <1>10, Active DEF Readiness, Steps
  <2>2. CASE Finish("success", "recover") /\ faults' = faults
    BY <1>6, <2>1, <2>2
  <2>3. CASE ~ Finish("success", "recover")
    BY <1>3, <1>10, <2>3 DEF Readiness, data
  <2> QED BY <1>10, <2>2, <2>3 DEF Readiness
<1>11. CASE Fail
  <2>1. run # NoRun
    BY <1>11, Active DEF Fail, Steps
  <2> QED BY <1>6, <1>11, <2>1 DEF Fail
<1>12. CASE Benchmark
  <2>1. UNCHANGED <<universe, job, certified, incident, squatter, repairs>>
    BY <1>12 DEF Benchmark, Ingest
  <2>2. \E n \in Nat : Failing(n)
    <3>1. PICK yahoo \in Answers, tiingo \in TiingoAnswers, stooq \in {Completed, Down} :
            Failing(Bad(yahoo) + Bad(tiingo) + Bad(stooq))
      BY <1>12 DEF Benchmark
    <3>2. Bad(yahoo) + Bad(tiingo) + Bad(stooq) \in Nat
      BY DEF Bad
    <3> QED BY <3>1, <3>2
  <2> QED BY <1>4, <1>5, <2>1, <2>2 DEF Rest
<1>13. CASE Universe
  <2>1. UNCHANGED <<job, certified, incident, squatter, repairs>>
    BY <1>13 DEF Universe
  <2>2. run # NoRun
    BY <1>13, Active DEF Universe, Steps
  <2>3. faults' \in 0..MaxFaults
    BY <1>5, <1>13 DEF Universe, Rest
  <2>4. universe' \in 0..LastDay
    <3>1. Max({universe, run.target}) \in 0..LastDay
      BY <2>2, RunIs, MaxUp, MacroAssumption DEF Rest
    <3> QED BY <1>13, <3>1 DEF Universe, Rest
  <2> QED BY <1>4, <2>1, <2>3, <2>4 DEF Rest
<1>14. CASE Macro
  <2>1. UNCHANGED <<universe, job, certified, incident, squatter, repairs>>
    BY <1>14 DEF Macro
  <2>2. \E n \in Nat : Failing(n)
    <3>1. PICK down \in SUBSET Series, treasury \in BOOLEAN :
            Failing(Cardinality(down) + IF treasury THEN 0 ELSE 1)
      BY <1>14 DEF Macro
    <3>2. Cardinality(down) \in Nat
      BY FS_Subset, FS_CardinalityType, MacroAssumption
    <3>3. Cardinality(down) + (IF treasury THEN 0 ELSE 1) \in Nat
      BY <3>2
    <3> QED BY <3>1, <3>3
  <2> QED BY <1>4, <1>5, <2>1, <2>2 DEF Rest
<1>15. CASE Member
  <2>1. UNCHANGED <<universe, job, certified, incident, squatter, repairs>>
    BY <1>15 DEF Member, Ingest
  <2>2. \E n \in Nat : Failing(n)
    <3>1. PICK yahoo \in Answers : Failing(Bad(yahoo))
      BY <1>15 DEF Member
    <3>2. Bad(yahoo) \in Nat
      BY DEF Bad
    <3> QED BY <3>1, <3>2
  <2> QED BY <1>4, <1>5, <2>1, <2>2 DEF Rest
<1>16. CASE MembersDone
  BY <1>3, <1>16 DEF MembersDone, data
<1>17. CASE Report
  BY <1>1, <1>17 DEF Report, data, Rest
<1>18. CASE Recover
  BY <1>1, <1>18 DEF Recover, data, Rest
<1>19. CASE Kill
  <2>1. UNCHANGED <<universe, job, certified, incident, repairs>> /\ Failing(1)
    BY <1>19 DEF Kill, data
  <2>2. faults' \in 0..MaxFaults
    BY <1>5, <2>1
  <2>3. squatter' \in BOOLEAN
    BY <1>19 DEF Kill, Rest
  <2> QED BY <1>1, <2>1, <2>2, <2>3 DEF Rest
<1>20. CASE SquatterExits
  BY <1>1, <1>20 DEF SquatterExits, data, Rest
<1>21. CASE RefreshActions
  <2>1. UNCHANGED <<universe, job, certified, incident, squatter>>
    BY <1>21 DEF RefreshActions
  <2>2. repairs' \in 0..MaxRepairs
    BY <1>21, DailyAssumption, SMTT(30) DEF RefreshActions, Rest
  <2>3. faults' \in 0..MaxFaults
    <3>1. PICK down \in SUBSET Lines : Failing(Cardinality(down))
      BY <1>21 DEF RefreshActions
    <3>2. IsFiniteSet(Lines)
      BY FS_Singleton, FS_Union, PriceAssumption DEF Lines
    <3>3. Cardinality(down) \in Nat
      BY <3>2, FS_Subset, FS_CardinalityType
    <3> QED BY <1>5, <3>1, <3>3
  <2> QED BY <1>1, <2>1, <2>2, <2>3 DEF Rest
<1>22. CASE Tick
  BY <1>3, <1>22 DEF Tick, data
<1>23. CASE UNCHANGED vars
  BY <1>3, <1>23 DEF vars
<1> QED BY <1>7, <1>8, <1>9, <1>10, <1>11, <1>12, <1>13, <1>14, <1>15, <1>16, <1>17, <1>18,
           <1>19, <1>20, <1>21, <1>22, <1>23 DEF Next, Step

LEMMA RunStep ==
  ASSUME Rest, MacroKept, RunKept, [Next]_vars
  PROVE  RunKept'
<1> PICK c \in 0..LastDay : c = Completed
  BY Now DEF Rest
<1> PICK e \in Int : e = Completed' /\ c <= e
  <2>1. Completed' \in 0..LastDay /\ Completed <= Completed'
    BY ClockMoves DEF Rest
  <2> QED BY <2>1
<1>1. fetched \in [Series -> 0..LastDay] /\ Yields \subseteq Series /\ LastDay \in Nat
  BY MacroAssumption DEF MacroKept
<1>2. ~ Macro => fetched' = fetched
  BY MacroMoves
<1>3. ASSUME fetched' = fetched, UNCHANGED <<job, certified, run>> PROVE RunKept'
  BY <1>1, <1>3 DEF RunKept, RunType
<1>4. ASSUME fetched' = fetched, UNCHANGED <<job, certified>>, run' = NoRun PROVE RunKept'
  BY <1>4 DEF RunKept
<1>5. ASSUME run # NoRun, NEW pc \in Steps, run' = [run EXCEPT !.pc = pc], fetched' = fetched,
             job'.target = job.target, certified \subseteq certified',
             job'.state = "success" => job'.target \in certified',
             pc # "members",
             pc = "readiness" => \A s \in Series \ Yields : fetched[s] >= run.target
      PROVE  RunKept'
  <2>1. /\ run' \in RunType /\ run'.target = run.target /\ run'.current = run.current
        /\ run'.pc = pc /\ run' # NoRun
    <3>1. run \in RunType
      BY <1>5, RunIs
    <3>2. run' \in RunType /\ run'.target = run.target /\ run'.current = run.current /\ run'.pc = pc
      BY <1>5, <3>1 DEF RunType
    <3> QED BY <3>2 DEF NoRun, Steps
  <2>2. run.target \in 0..LastDay /\ run.target <= c
    BY <1>5, RunIs DEF RunKept
  <2>3. run'.target <= e /\ job'.target = run'.target
    BY <1>5, <2>1, <2>2 DEF RunKept
  <2>4. run'.current => run'.target \in certified'
    BY <1>5, <2>1 DEF RunKept
  <2>5. run'.pc = "readiness" \/ (run'.pc = "members" /\ ~ run'.failed) =>
            \A s \in Series \ Yields : fetched'[s] >= run'.target
    BY <1>5, <2>1
  <2> QED BY <1>5, <2>1, <2>3, <2>4, <2>5 DEF RunKept
<1>6. ASSUME run # NoRun, NEW pc \in Steps, Go(pc), fetched' = fetched,
             UNCHANGED <<job, certified>>, pc # "members",
             pc = "readiness" => \A s \in Series \ Yields : fetched[s] >= run.target
      PROVE  RunKept'
  BY <1>5, <1>6 DEF Go, RunKept
<1>7. ASSUME NEW state \in {"success", "failed"}, NEW pc \in {"recover", "report"},
             Finish(state, pc), run # NoRun
      PROVE  RunKept'
  <2>1. run' = [run EXCEPT !.pc = pc] /\ fetched' = fetched /\ pc \in Steps
    BY <1>7 DEF Finish, Go, data, Steps
  <2>2. job.target = run.target /\ job'.target = job.target /\ job'.state = state
    BY <1>7 DEF Finish, RunKept, Rest
  <2>3. certified \subseteq certified' /\ (state = "success" => run.target \in certified')
    BY <1>7 DEF Finish
  <2> QED BY <1>5, <1>7, <2>1, <2>2, <2>3
<1>8. ASSUME NEW force \in BOOLEAN, Start(force) PROVE RunKept'
  <2>1. /\ run' = [pc |-> "check", target |-> c, todo |-> MemberOrder, failed |-> FALSE, streak |-> 0,
                   current |-> ~ force /\ job = [state |-> "success", target |-> c]]
        /\ job' = [state |-> "running", target |-> c] /\ certified' = certified
    BY <1>8 DEF Start
  <2>2. run' \in RunType
    BY <2>1, DailyAssumption DEF RunType, Steps
  <2>3. run'.current => c \in certified
    <3> SUFFICES ASSUME job = [state |-> "success", target |-> c] PROVE c \in certified
      BY <2>1
    <3> QED BY DEF RunKept
  <2>4. /\ run'.pc = "check" /\ run'.target = c /\ job'.target = c
        /\ job'.state # "success" /\ c <= e
    BY <2>1
  <2> QED BY <2>1, <2>2, <2>3, <2>4 DEF RunKept
<1>9. CASE Refused
  BY <1>3, <1>9 DEF Refused, data
<1>10. CASE Check
  <2>1. run # NoRun
    BY <1>10, Active DEF Check, Steps
  <2>2. CASE Finish("success", "recover")
    BY <1>7, <2>1, <2>2
  <2>3. CASE ~ Finish("success", "recover")
    BY <1>6, <1>10, <2>1, <2>3 DEF Check, data, Steps
  <2> QED BY <2>2, <2>3
<1>11. CASE Readiness
  <2>1. run # NoRun
    BY <1>11, Active DEF Readiness, Steps
  <2>2. CASE Finish("success", "recover")
    BY <1>7, <2>1, <2>2
  <2>3. CASE ~ Finish("success", "recover")
    BY <1>6, <1>11, <2>1, <2>3 DEF Readiness, data, Steps
  <2> QED BY <2>2, <2>3
<1>12. CASE Fail
  <2>1. run # NoRun
    BY <1>12, Active DEF Fail, Steps
  <2> QED BY <1>7, <1>12, <2>1 DEF Fail
<1>13. CASE Benchmark
  <2>1. run # NoRun
    BY <1>13, Active DEF Benchmark, Steps
  <2>2. fetched' = fetched /\ UNCHANGED <<job, certified>>
    BY <1>13 DEF Benchmark, Ingest
  <2>3. Go("universe") \/ Go("fail")
    BY <1>13 DEF Benchmark
  <2> QED BY <1>6, <2>1, <2>2, <2>3 DEF Steps
<1>14. CASE Universe
  <2>1. run # NoRun
    BY <1>14, Active DEF Universe, Steps
  <2> QED BY <1>6, <1>14, <2>1 DEF Universe, Steps
<1>15. CASE Macro
  <2>1. run # NoRun
    BY <1>15, Active DEF Macro, Steps
  <2>2. run \in RunType /\ run.target \in 0..LastDay /\ run.target <= c /\ job.target = run.target
        /\ (run.current => run.target \in certified)
    BY <2>1, RunIs DEF RunKept
  <2>3. PICK down \in SUBSET Series, treasury \in BOOLEAN :
          /\ fetched' = [s \in Series |-> IF s \in down THEN fetched[s] ELSE c]
          /\ run' = [run EXCEPT !.pc = "members",
                                !.failed = (down \ (IF treasury THEN Yields ELSE {})) # {}
                                           \/ \E m \in Members : Listed[m] > run.target]
          /\ UNCHANGED <<job, certified>>
    BY <1>15 DEF Macro
  <2>4. /\ run' \in RunType /\ run'.target = run.target /\ run'.current = run.current
        /\ run'.pc = "members" /\ run' # NoRun
    <3>1. PICK bad \in BOOLEAN : run' = [run EXCEPT !.pc = "members", !.failed = bad]
      BY <2>3
    <3>2. run' \in RunType /\ run'.target = run.target /\ run'.current = run.current
          /\ run'.pc = "members"
      BY <2>2, <3>1 DEF RunType, Steps
    <3> QED BY <3>2 DEF NoRun
  <2>5. run'.failed = ((down \ (IF treasury THEN Yields ELSE {})) # {}
                       \/ \E m \in Members : Listed[m] > run.target)
    BY <2>2, <2>3 DEF RunType
  <2>6. ASSUME ~ run'.failed, NEW s \in Series \ Yields PROVE fetched'[s] >= run'.target
    <3>1. (down \ (IF treasury THEN Yields ELSE {})) = {}
      BY <2>5, <2>6
    <3>2. s \notin down
      BY <2>6, <3>1
    <3>3. fetched'[s] = c
      BY <2>3, <2>6, <3>2
    <3> QED BY <2>2, <2>4, <3>3
  <2>7. run'.target <= e
    BY <2>2, <2>4
  <2> QED BY <2>2, <2>3, <2>4, <2>6, <2>7 DEF RunKept
<1>16. CASE Member
  <2>1. run # NoRun /\ run.pc = "members"
    BY <1>16, Active DEF Member, Running, Steps
  <2>2. run \in RunType /\ run.target \in 0..LastDay /\ run.target <= c /\ job.target = run.target
        /\ (run.current => run.target \in certified)
    BY <2>1, RunIs DEF RunKept
  <2>3. PICK bad \in BOOLEAN, streak \in {0, run.streak + 1}, todo \in {<< >>, Tail(run.todo)} :
          run' = [run EXCEPT !.failed = run.failed \/ bad, !.streak = streak, !.todo = todo]
    <3>1. PICK streak \in {0, run.streak + 1} : \E rows :
            run' = [run EXCEPT !.failed = @ \/ rows = << >>, !.streak = streak,
                              !.todo = IF streak >= CircuitLimit THEN << >> ELSE Tail(@)]
      <4>1. PICK yahoo \in Answers, transport \in BOOLEAN :
              \E rows \in {MemberRows(Head(run.todo), prices[Head(run.todo)], Completed, Today, yahoo)} :
              \E streak \in {IF transport THEN run.streak + 1 ELSE 0} :
                run' = [run EXCEPT !.failed = @ \/ rows = << >>, !.streak = streak,
                                  !.todo = IF streak >= CircuitLimit THEN << >> ELSE Tail(@)]
        BY <1>16 DEF Member
      <4>2. {IF transport THEN run.streak + 1 ELSE 0} \subseteq {0, run.streak + 1}
        OBVIOUS
      <4> QED BY <4>1, <4>2, Zenon
    <3>2. PICK rows :
            run' = [run EXCEPT !.failed = @ \/ rows = << >>, !.streak = streak,
                              !.todo = IF streak >= CircuitLimit THEN << >> ELSE Tail(@)]
      BY <3>1
    <3>3. PICK bad \in BOOLEAN : bad = (rows = << >>)
      OBVIOUS
    <3>4. PICK todo \in {<< >>, Tail(run.todo)} :
            todo = IF streak >= CircuitLimit THEN << >> ELSE Tail(run.todo)
      OBVIOUS
    <3> QED BY <3>2, <3>3, <3>4
  <2>4. UNCHANGED <<job, certified, fetched>> /\ run.todo # << >>
    BY <1>16 DEF Member, Ingest
  <2>5. todo \in Seq(Members) /\ streak \in Nat
    <3>1. run.todo \in Seq(Members) /\ run.streak \in Nat
      BY <2>2 DEF RunType
    <3>2. Tail(run.todo) \in Seq(Members) /\ << >> \in Seq(Members)
      BY <2>4, <3>1
    <3>3. streak \in Nat
      BY <3>1
    <3> QED BY <3>2, <3>3
  <2>6. run' \in RunType /\ run'.target = run.target /\ run'.current = run.current
        /\ run'.pc = "members" /\ run'.failed = (run.failed \/ bad)
    BY <2>1, <2>2, <2>3, <2>5 DEF RunType
  <2>7. run' # NoRun /\ run'.target <= e
    BY <2>2, <2>6 DEF NoRun
  <2>8. ~ run'.failed => \A s \in Series \ Yields : fetched'[s] >= run'.target
    BY <2>1, <2>4, <2>6 DEF RunKept
  <2>9. job.state = "success" => job.target \in certified
    BY DEF RunKept
  <2> QED BY <2>2, <2>4, <2>6, <2>7, <2>8, <2>9 DEF RunKept
<1>17. CASE MembersDone
  <2>1. run # NoRun /\ run.pc = "members"
    BY <1>17, Active DEF MembersDone, Running, Steps
  <2>2. CASE run.failed
    BY <1>6, <1>17, <2>1, <2>2 DEF MembersDone, data, Steps
  <2>3. CASE ~ run.failed
    <3>1. \A s \in Series \ Yields : fetched[s] >= run.target
      BY <2>1, <2>3 DEF RunKept
    <3>2. Go("readiness") /\ "readiness" \in Steps
      BY <1>17, <2>3 DEF MembersDone, Steps
    <3> QED BY <1>6, <1>17, <2>1, <3>1, <3>2 DEF MembersDone, data
  <2> QED BY <2>2, <2>3
<1>18. CASE Report
  BY <1>4, <1>18 DEF Report, data
<1>19. CASE Recover
  BY <1>4, <1>19 DEF Recover, data
<1>20. CASE Kill
  BY <1>4, <1>20 DEF Kill, data
<1>21. CASE SquatterExits
  BY <1>3, <1>21 DEF SquatterExits, data
<1>22. CASE RefreshActions
  BY <1>3, <1>22 DEF RefreshActions
<1>23. CASE Tick
  BY <1>3, <1>23 DEF Tick, data
<1>24. CASE UNCHANGED vars
  BY <1>3, <1>24 DEF vars
<1> QED BY <1>8, <1>9, <1>10, <1>11, <1>12, <1>13, <1>14, <1>15, <1>16, <1>17, <1>18,
           <1>19, <1>20, <1>21, <1>22, <1>23, <1>24 DEF Next, Step

-----------------------------------------------------------------------------
(* What readiness shows.                                                   *)

LEMMA ReadyMeans ==
  ASSUME NEW d \in 0..LastDay, Ready(d), PricesKept, universe \in 0..LastDay
  PROVE  /\ d \in DOMAIN prices[Spy] /\ prices[Spy][d].safe
         /\ Cardinality({m \in Members : d \in DOMAIN prices[m] /\ prices[m][d].safe}) >= MinCovered
         /\ universe >= d
<1> d \in Nat /\ LastDay \in Nat
  BY MacroAssumption
<1> DEFINE broad == {x \in ReviewedDays(prices[Spy], d) : Covered(prices, x) >= MinCovered}
           B == BroadThrough(prices, d, MinCovered)
<1>1. CertifiedThrough(d) = d /\ universe >= d
  BY DEF Ready
<1>2. (broad = {} => B = Down) /\ (broad # {} => B = Max(broad))
  BY DEF BroadThrough
<1>3. broad \in SUBSET (0..d)
  <2>1. Stored(Spy, prices[Spy], Completed)
    BY SpyLine DEF PricesKept
  <2>2. \A x \in broad : x \in Int /\ 0 <= x /\ x <= d
    BY <2>1 DEF ReviewedDays, Stored
  <2> HIDE DEF broad
  <2> QED BY <2>2
<1>4. broad # {} => Max(broad) \in broad
  <2> HIDE DEF broad
  <2> QED BY <1>3, MaxOf
<1>5. B \in Int
  <2> HIDE DEF broad, B
  <2>1. CASE broad = {}
    BY <1>2, <2>1 DEF Down
  <2>2. CASE broad # {}
    <3>1. Max(broad) \in 0..d
      BY <1>3, <1>4, <2>2
    <3>2. B = Max(broad)
      BY <1>2, <2>2
    <3> QED BY <3>1, <3>2
  <2> QED BY <2>1, <2>2
<1>6. Min({B, universe}) = d
  BY <1>1 DEF CertifiedThrough
<1>7. B >= d
  <2> HIDE DEF B
  <2>1. universe \in Int
    OBVIOUS
  <2>2. Min({B, universe}) = IF B <= universe THEN B ELSE universe
    BY <1>5, <2>1, MinPair
  <2> QED BY <1>5, <1>6, <2>1, <2>2
<1>8. d \in broad
  <2> HIDE DEF broad, B
  <2>1. broad # {} /\ B \in broad
    BY <1>2, <1>4, <1>7 DEF Down
  <2>2. B <= d /\ B \in Int
    BY <1>3, <2>1
  <2>3. B = d
    BY <1>7, <2>2
  <2> QED BY <2>1, <2>3
<1>9. d \in DOMAIN prices[Spy] /\ prices[Spy][d].safe
  BY <1>8 DEF ReviewedDays, Reviewed
<1>10. Cardinality({m \in Members : d \in DOMAIN prices[m] /\ prices[m][d].safe}) >= MinCovered
  <2> DEFINE S == {m \in Members : d \in ReviewedDays(prices[m], d)}
             T == {m \in Members : d \in DOMAIN prices[m] /\ prices[m][d].safe}
  <2>1. Cardinality(S) >= MinCovered
    BY <1>8 DEF Covered
  <2>2. S \subseteq T /\ T \subseteq Members
    BY DEF ReviewedDays, Reviewed
  <2> HIDE DEF S, T
  <2>3. IsFiniteSet(T) /\ IsFiniteSet(S)
    BY <2>2, FS_Subset, PriceAssumption
  <2>4. Cardinality(S) <= Cardinality(T)
    BY <2>2, <2>3, FS_Subset
  <2>5. Cardinality(S) \in Nat /\ Cardinality(T) \in Nat /\ MinCovered \in Nat
    BY <2>3, FS_CardinalityType, DailyAssumption
  <2>6. Cardinality(T) >= MinCovered
    BY <2>1, <2>4, <2>5
  <2> QED BY <2>6 DEF T
<1> QED BY <1>1, <1>9, <1>10

\* A certified target was ready, and no mandatory series was behind it.
CertifiedStep ==
  \A d \in certified' \ certified :
    /\ d \in DOMAIN prices[Spy] /\ prices[Spy][d].safe
    /\ Cardinality({m \in Members : d \in DOMAIN prices[m] /\ prices[m][d].safe}) >= MinCovered
    /\ universe >= d
    /\ \A s \in Series \ Yields : fetched[s] >= d

LEMMA CertifiedMoves ==
  ASSUME Rest, PricesKept, MacroKept, RunKept, [Next]_vars
  PROVE  CertifiedStep
<1>1. CASE certified' = certified
  BY <1>1 DEF CertifiedStep
<1>2. ASSUME Finish("success", "recover"), Ready(run.target), run # NoRun,
             run.target \in certified \/ \A s \in Series \ Yields : fetched[s] >= run.target
      PROVE  CertifiedStep
  <2>1. certified' = certified \cup {run.target}
    BY <1>2 DEF Finish
  <2>2. run.target \in 0..LastDay
    BY <1>2, RunIs
  <2>3. /\ run.target \in DOMAIN prices[Spy] /\ prices[Spy][run.target].safe
        /\ Cardinality({m \in Members : run.target \in DOMAIN prices[m]
                                        /\ prices[m][run.target].safe}) >= MinCovered
        /\ universe >= run.target
    BY <1>2, <2>2, ReadyMeans DEF Rest
  <2> QED BY <1>2, <2>1, <2>3 DEF CertifiedStep
<1>3. CASE Check
  <2>1. run # NoRun
    BY <1>3, Active DEF Check, Steps
  <2>2. CASE run.current /\ Ready(run.target)
    BY <1>2, <1>3, <2>1, <2>2 DEF Check, RunKept
  <2>3. CASE ~ (run.current /\ Ready(run.target))
    BY <1>1, <1>3, <2>3 DEF Check
  <2> QED BY <2>2, <2>3
<1>4. CASE Readiness
  <2>1. run # NoRun /\ run.pc = "readiness"
    BY <1>4, Active DEF Readiness, Running, Steps
  <2>2. CASE Ready(run.target)
    <3>1. \A s \in Series \ Yields : fetched[s] >= run.target
      BY <2>1 DEF RunKept
    <3> QED BY <1>2, <1>4, <2>1, <2>2, <3>1 DEF Readiness
  <2>3. CASE ~ Ready(run.target)
    BY <1>1, <1>4, <2>3 DEF Readiness
  <2> QED BY <2>2, <2>3
<1>5. CASE Fail
  BY <1>1, <1>5 DEF Fail, Finish
<1>6. CASE Benchmark \/ Universe \/ Macro \/ Member \/ MembersDone \/ Report \/ Recover
  BY <1>1, <1>6 DEF Benchmark, Ingest, Universe, Macro, Member, MembersDone, Report, Recover
<1>7. CASE (\E force \in BOOLEAN : Start(force)) \/ Refused \/ Kill \/ SquatterExits
           \/ RefreshActions \/ Tick \/ UNCHANGED vars
  BY <1>1, <1>7 DEF Start, Refused, Kill, SquatterExits, RefreshActions, Tick, vars
<1> QED BY <1>3, <1>4, <1>5, <1>6, <1>7 DEF Next, Step

-----------------------------------------------------------------------------
(* The invariant.                                                          *)

LEMMA InitIInv ==
  ASSUME Init
  PROVE  IInv
<1>1. FirstDay \in Nat /\ LastDay \in Nat /\ FirstDay + 1 \in 0..LastDay /\ FirstDay \in 0..LastDay
  BY DailyAssumption, MacroAssumption
<1>2. PICK first \in 0..LastDay : first = FirstDay + 1
  BY <1>1
<1>3. clock = 2 * first /\ clock \in Nat
  BY <1>1, <1>2 DEF Init
<1>4. Completed = first
  <2>1. clock \in {2 * first, 2 * first + 1}
    BY <1>3
  <2> QED BY <1>3, <2>1, DayOf DEF Completed
<1>5. Rest
  <2>1. \E d \in 0..LastDay : clock \in {2 * d, 2 * d + 1}
    BY <1>3
  <2>2. faults \in 0..MaxFaults /\ repairs \in 0..MaxRepairs
    BY DailyAssumption DEF Init
  <2>3. /\ universe \in 0..LastDay /\ certified \subseteq 0..LastDay
        /\ job \in [state : {"running", "success", "failed"}, target : 0..LastDay]
        /\ incident \in {"none", "open", "resolved"} /\ squatter \in BOOLEAN
    BY <1>1 DEF Init
  <2> QED BY <2>1, <2>2, <2>3 DEF Rest
<1>6. PricesKept
  <2>1. DOMAIN prices = Lines
    BY DailyAssumption DEF Init
  <2>2. ASSUME NEW l \in Lines PROVE Stored(l, prices[l], FirstDay)
    BY DailyAssumption DEF Init, Stored
  <2>3. FirstDay \in Int /\ first \in Int /\ FirstDay <= first
    BY <1>1, <1>2
  <2>4. \A l \in Lines : Stored(l, prices[l], first)
    BY <2>2, <2>3, StoredLater
  <2> QED BY <1>4, <2>1, <2>4 DEF PricesKept
<1>7. MacroKept
  <2>1. /\ DOMAIN macro = Series /\ fetched = [s \in Series |-> FirstDay]
        /\ \A s \in Series : macro[s] = FetchSeries(s, 0, FirstDay)
    BY DEF Init
  <2>2. ASSUME NEW s \in Series PROVE Known(s, macro[s], FirstDay, FirstDay)
    <3>1. \A r \in macro[s] : FredRow(s, r, FirstDay)
      BY <1>1, <2>1, FetchIs
    <3>2. \A v \in Vintages[s] : 0 <= v.rel /\ v.rel <= FirstDay =>
              Row(v.obs, v.rel, v.rel, "fred") \in macro[s]
      BY <1>1, <2>1, FetchIs
    <3> QED BY <3>1, <3>2, VintageIs DEF Known
  <2>3. FirstDay \in Int /\ first \in Int /\ FirstDay <= first
    BY <1>1, <1>2
  <2>4. \A s \in Series : Known(s, macro[s], FirstDay, first)
    BY <2>2, <2>3, KnownLater
  <2> QED BY <1>1, <1>4, <2>1, <2>3, <2>4 DEF MacroKept
<1>8. RunKept
  BY DEF Init, RunKept, NoRun
<1> QED BY <1>5, <1>6, <1>7, <1>8 DEF IInv

LEMMA NextIInv ==
  ASSUME IInv, [Next]_vars
  PROVE  IInv'
BY RestStep, PricesStep, MacroStep, RunStep DEF IInv

LEMMA IInvTypes ==
  ASSUME IInv
  PROVE  TypeOK
<1>1. LastDay \in Nat /\ Completed \in 0..LastDay /\ clock \in 0..(2 * LastDay + 1)
  BY Now, MacroAssumption DEF IInv, Rest
<1>2. \A l \in Lines : /\ DOMAIN prices[l] \subseteq 0..LastDay
                       /\ \A d \in DOMAIN prices[l] : prices[l][d] \in RowType
  BY <1>1 DEF IInv, PricesKept, Stored
<1>3. \A s \in Series : \A r \in macro[s] : {r.obs, r.rel} \subseteq 0..LastDay
  <2> SUFFICES ASSUME NEW s \in Series, NEW r \in macro[s] PROVE r.obs \in 0..LastDay /\ r.rel \in 0..LastDay
    OBVIOUS
  <2>1. fetched[s] \in 0..LastDay /\ Known(s, macro[s], fetched[s], Completed)
    BY DEF IInv, MacroKept
  <2>2. CASE FredRow(s, r, fetched[s])
    BY <1>1, <2>1, <2>2 DEF FredRow
  <2>3. CASE TreasuryRow(s, r, Completed)
    <3>1. r.obs \in 0..Completed /\ r.rel = r.obs
      BY <2>3 DEF TreasuryRow, Row
    <3> QED BY <1>1, <3>1
  <2> QED BY <2>1, <2>2, <2>3 DEF Known
<1>4. fetched \in [Series -> 0..LastDay]
  BY DEF IInv, MacroKept
<1>5. run.pc \in {"none", "check", "benchmark", "universe", "macro", "members", "readiness",
                  "fail", "report", "recover"}
  BY DEF IInv, RunKept, RunType, NoRun, Steps
<1> QED BY <1>1, <1>2, <1>3, <1>4, <1>5 DEF TypeOK, IInv, Rest

LEMMA Invariant == Spec => []IInv
<1>1. Init => IInv
  BY InitIInv
<1>2. IInv /\ [Next]_vars => IInv'
  BY NextIInv
<1> QED BY <1>1, <1>2, PTL DEF Spec

\* The stores, the job and the run have their types, and no line of prices gets
\* a hole, however long providers fail, answer late or the machine was off
\* (PricesInv: refresh_prices, refresh_price_actions).
THEOREM PricesHold == Spec => []PricesInv
<1>1. IInv => PricesInv
  <2>1. IInv => GapFree
    BY DEF IInv, PricesKept, Stored, GapFree
  <2> QED BY <2>1, IInvTypes DEF PricesInv
<1> QED BY <1>1, Invariant, PTL

\* Up to its last complete fetch a series answers for every past day what FRED
\* had published then, for any chunks, overlap and course of revisions
\* (MacroKnown: ingest_macro, Store.pit_macro_history).
THEOREM MacroTrue == Spec => []MacroKnown
<1>1. IInv => MacroKnown
  <2> SUFFICES ASSUME IInv, NEW s \in Series, NEW d \in 0..fetched[s], NEW v \in Vintages[s]
               PROVE  \/ Pit(macro[s], v.obs, d) = Published(s, v.obs, d)
                      \/ /\ Published(s, v.obs, d) = NoValue /\ s \in Yields /\ v.obs <= d
                         /\ Pit(macro[s], v.obs, d) = TreasuryValue
    BY DEF MacroKnown
  <2>1. fetched[s] \in 0..LastDay /\ Known(s, macro[s], fetched[s], Completed)
    BY DEF IInv, MacroKept
  <2>2. Completed \in Int
    BY Now, MacroAssumption DEF IInv, Rest
  <2> QED BY <2>1, <2>2, KnownReads
<1> QED BY <1>1, Invariant, PTL

\* No mix of failed, late, killed and repeated runs certifies a session that was
\* refreshed in part (CertifiedTrue: run_us_daily_cycle, assess_us_readiness).
THEOREM CertifiedHolds == Spec => CertifiedTrue
<1>1. IInv /\ [Next]_vars => [CertifiedStep]_vars
  BY CertifiedMoves DEF IInv
<1>2. [CertifiedStep]_vars =>
        [\A d \in certified' \ certified :
           /\ d \in DOMAIN prices[Spy] /\ prices[Spy][d].safe
           /\ Cardinality({m \in Members : d \in DOMAIN prices[m] /\ prices[m][d].safe}) >= MinCovered
           /\ universe >= d
           /\ \A s \in Series \ Yields : fetched[s] >= d]_vars
  BY DEF CertifiedStep
<1> QED BY <1>1, <1>2, Invariant, PTL DEF Spec, CertifiedTrue

-----------------------------------------------------------------------------
(* The quoted price.                                                       *)

IsQuoted(line, rows) ==
  \A d \in DOMAIN rows : FactorPrice(line, d, rows[d]) \in {Quoted(line, d), Unknown}

LEMMA UpsertQuoted ==
  ASSUME NEW line, NEW stored, NEW rows, IsQuoted(line, stored), IsQuoted(line, rows)
  PROVE  IsQuoted(line, Upsert(stored, rows))
<1> DEFINE new == Upsert(stored, rows)
<1>1. /\ DOMAIN new = DOMAIN rows \cup DOMAIN stored
      /\ \A d \in DOMAIN rows : new[d] = rows[d]
      /\ \A d \in DOMAIN stored \ DOMAIN rows : new[d] = stored[d]
  BY DEF Upsert
<1> HIDE DEF new
<1>2. IsQuoted(line, new)
  <2> SUFFICES ASSUME NEW d \in DOMAIN new
               PROVE  FactorPrice(line, d, new[d]) \in {Quoted(line, d), Unknown}
    BY DEF IsQuoted
  <2>1. CASE d \in DOMAIN rows
    BY <1>1, <2>1 DEF IsQuoted
  <2>2. CASE d \in DOMAIN stored \ DOMAIN rows
    BY <1>1, <2>2 DEF IsQuoted
  <2> QED BY <1>1, <2>1, <2>2
<1> QED BY <1>2 DEF new

LEMMA UpsertReviewed ==
  ASSUME NEW stored, NEW rows, AllReviewed(stored), AllReviewed(rows)
  PROVE  AllReviewed(Upsert(stored, rows))
<1> DEFINE new == Upsert(stored, rows)
<1>1. /\ DOMAIN new = DOMAIN rows \cup DOMAIN stored
      /\ \A d \in DOMAIN rows : new[d] = rows[d]
      /\ \A d \in DOMAIN stored \ DOMAIN rows : new[d] = stored[d]
  BY DEF Upsert
<1> HIDE DEF new
<1>2. AllReviewed(new)
  BY <1>1 DEF AllReviewed
<1> QED BY <1>2 DEF new

LEMMA QuotedInt ==
  ASSUME NEW line \in Lines, NEW d \in Int
  PROVE  Quoted(line, d) \in Int
<1>1. SplitsIn(line, 0..d) \in Nat
  BY SplitsNat
<1> QED BY <1>1 DEF Quoted

LEMMA YahooQuoted ==
  ASSUME NEW line \in Lines, NEW start \in Int, NEW end \in Int, NEW through \in Int
  PROVE  /\ IsQuoted(line, FetchYfinance(line, start, end, through))
         /\ AllReviewed(FetchYfinance(line, start, end, through))
<1> DEFINE rows == FetchYfinance(line, start, end, through)
<1>1. ASSUME NEW d \in DOMAIN rows
      PROVE  FactorPrice(line, d, rows[d]) = Quoted(line, d) /\ Reviewed(rows[d])
  <2>1. d \in Int
    BY DayIn DEF FetchYfinance
  <2>2. rows[d] = YahooRow(line, d, through, through)
    BY DEF FetchYfinance
  <2>3. PICK n \in Nat : n = SplitsIn(line, (d + 1)..through)
    <3>1. d + 1 \in Int
      BY <2>1
    <3> QED BY <3>1, SplitsNat
  <2>4. PICK row : row = [basis |-> n, factor |-> n, adjusted |-> TRUE, safe |-> TRUE]
    OBVIOUS
  <2>5. rows[d] = row
    BY <2>2, <2>3, <2>4 DEF YahooRow, YahooBasis
  <2>6. n # Unknown
    BY PriceAssumption
  <2>7. PICK q \in Int : q = Quoted(line, d)
    BY <2>1, QuotedInt
  <2>8. FactorPrice(line, d, row) = (q - n) + n
    BY <2>4, <2>6, <2>7 DEF FactorPrice, Close
  <2>9. Reviewed(row)
    BY <2>4, <2>6 DEF Reviewed
  <2> QED BY <2>5, <2>7, <2>8, <2>9
<1> HIDE DEF rows
<1>2. IsQuoted(line, rows) /\ AllReviewed(rows)
  BY <1>1 DEF IsQuoted, AllReviewed
<1> QED BY <1>2 DEF rows

LEMMA FallbackQuoted ==
  ASSUME NEW line \in Lines, NEW start \in Int, NEW end \in Int, NEW through \in Int
  PROVE  /\ IsQuoted(line, FetchTiingo(start, end, through))
         /\ IsQuoted(line, FetchStooq(start, end, through))
<1>1. ASSUME NEW d \in DaysOf(start, end, through)
      PROVE  /\ FactorPrice(line, d, TiingoRow) = Quoted(line, d)
             /\ FactorPrice(line, d, StooqRow) = Quoted(line, d)
  <2>1. d \in Int
    BY DayIn
  <2>2. PICK q \in Int : q = Quoted(line, d)
    BY <2>1, QuotedInt
  <2>3. FactorPrice(line, d, TiingoRow) = q - 0
    BY <2>2 DEF FactorPrice, Close, TiingoRow
  <2>4. FactorPrice(line, d, StooqRow) = q - 0
    BY <2>2 DEF FactorPrice, Close, StooqRow
  <2> QED BY <2>2, <2>3, <2>4
<1> QED BY <1>1 DEF IsQuoted, FetchTiingo, FetchStooq

LEMMA ActionQuoted ==
  ASSUME NEW line \in Lines, NEW from \in Nat, NEW end \in Int, NEW through \in Int,
         \A x \in Splits[line] : x <= from
  PROVE  IsQuoted(line, FetchActions(line, from, end, through))
<1> DEFINE rows == FetchActions(line, from, end, through)
<1>1. ASSUME NEW d \in DOMAIN rows
      PROVE  FactorPrice(line, d, rows[d]) = Quoted(line, d)
  <2>1. d \in Int /\ from <= d
    BY DayIn, FirstIs DEF FetchActions
  <2>2. rows[d] = ActionRow(line, d, through)
    BY DEF FetchActions
  <2>3. SplitsIn(line, (d + 1)..through) = 0
    <3>1. \A x \in Splits[line] : x < d + 1
      BY <2>1, PriceAssumption
    <3>2. d + 1 \in Int
      BY <2>1
    <3> QED BY <3>1, <3>2, NoSplits
  <2>4. PICK row : row = ActionRow(line, d, through)
    OBVIOUS
  <2>5. row.basis = 0 /\ row.adjusted = FALSE
    BY <2>3, <2>4 DEF ActionRow, YahooBasis
  <2>6. PICK q \in Int : q = Quoted(line, d)
    BY <2>1, QuotedInt
  <2>7. FactorPrice(line, d, row) = q - 0
    BY <2>5, <2>6 DEF FactorPrice, Close
  <2> QED BY <2>2, <2>4, <2>6, <2>7
<1> HIDE DEF rows
<1>2. IsQuoted(line, rows)
  BY <1>1 DEF IsQuoted
<1> QED BY <1>2 DEF rows

LEMMA RelabelledQuoted ==
  ASSUME NEW m \in Members, NEW rows
  PROVE  /\ IsQuoted(m, rows) => IsQuoted(m, Relabelled(m, rows))
         /\ AllReviewed(rows) => AllReviewed(Relabelled(m, rows))
BY DEF IsQuoted, AllReviewed, Relabelled

LEMMA QuotedStep ==
  ASSUME Rest, PricesKept, RunKept, QuotedKept, Premises, [Next]_vars
  PROVE  QuotedKept'
<1> PICK c \in Nat : c = Completed
  BY Now, MacroAssumption DEF Rest
<1>1. DOMAIN prices = Lines /\ \A l \in Lines : Stored(l, prices[l], c) /\ IsQuoted(l, prices[l])
  BY DEF PricesKept, QuotedKept, QuotedBasis, IsQuoted
<1>2. \A m \in Members : AllReviewed(History[m]) => AllReviewed(prices[m])
  BY DEF QuotedKept
<1>3. SUFFICES /\ \A l \in Lines : IsQuoted(l, prices'[l])
               /\ \A m \in Members : AllReviewed(History[m]) => AllReviewed(prices'[m])
  BY DEF QuotedKept, QuotedBasis, IsQuoted
<1>4. CASE prices' = prices
  BY <1>1, <1>2, <1>4
<1>5. CASE Benchmark
  <2>1. PICK yahoo \in Answers, tiingo \in TiingoAnswers, stooq \in {Completed, Down} :
          Ingest(Spy, BenchmarkRows(prices[Spy], Completed, yahoo, tiingo, stooq))
    BY <1>5 DEF Benchmark
  <2> DEFINE rows == BenchmarkRows(prices[Spy], c, yahoo, tiingo, stooq)
  <2>2. prices' = [prices EXCEPT ![Spy] = Upsert(prices[Spy], rows)]
    BY <2>1 DEF Ingest
  <2>3. IsQuoted(Spy, rows)
    <3>1. PICK start \in Int : start = Incremental(prices[Spy], c)
      BY <1>1, SpyLine, IncrementalIn
    <3>2. yahoo \in Int /\ tiingo \in Int /\ stooq \in Int /\ c + 1 \in Int
      BY <2>1 DEF Answers, TiingoAnswers, Down
    <3>3. IsQuoted(Spy, FetchPrices(Spy, start, c + 1, yahoo, tiingo, stooq))
      BY <3>2, SpyLine, YahooQuoted, FallbackQuoted DEF FetchPrices
    <3> QED BY <3>1, <3>3 DEF BenchmarkRows
  <2> HIDE DEF rows
  <2>4. IsQuoted(Spy, Upsert(prices[Spy], rows))
    BY <1>1, <2>3, SpyLine, UpsertQuoted
  <2> QED BY <1>1, <1>2, <2>2, <2>4, SpyLine
<1>6. CASE Member
  <2> DEFINE m == Head(run.todo)
  <2>1. PICK yahoo \in Answers : Ingest(m, MemberRows(m, prices[m], Completed, Today, yahoo))
    BY <1>6 DEF Member
  <2>2. m \in Members
    <3>1. run # NoRun /\ run.todo # << >>
      BY <1>6 DEF Member, Running, NoRun
    <3>2. run.todo \in Seq(Members)
      BY <3>1 DEF RunKept, RunType
    <3> QED BY <3>1, <3>2
  <2> HIDE DEF m
  <2>3. PICK rows : rows = MemberRows(m, prices[m], c, Today, yahoo)
    OBVIOUS
  <2>4. prices' = [prices EXCEPT ![m] = Upsert(prices[m], rows)]
    BY <2>1, <2>3 DEF Ingest
  <2>5. IsQuoted(m, rows) /\ AllReviewed(rows)
    <3>1. PICK inc \in Int : inc = Incremental(prices[m], c)
      BY <1>1, <2>2, SpyLine, IncrementalIn
    <3>2. PICK start \in Int : start = Max({Listed[m], inc})
      <4>1. Listed[m] \in Int
        BY <2>2, PriceAssumption
      <4> QED BY <4>1, MaxPair
    <3>3. yahoo \in Int /\ Today \in Int
      BY <2>1, Now DEF Answers, Down, Rest
    <3>4. CASE rows = << >>
      BY <3>4 DEF IsQuoted, AllReviewed
    <3>5. CASE rows = Relabelled(m, FetchYfinance(m, start, Today, yahoo))
      BY <2>2, <3>3, <3>5, SpyLine, YahooQuoted, RelabelledQuoted
    <3> QED BY <2>3, <3>1, <3>2, <3>4, <3>5 DEF MemberRows
  <2>6. IsQuoted(m, Upsert(prices[m], rows))
    BY <1>1, <2>2, <2>5, SpyLine, UpsertQuoted
  <2>7. AllReviewed(prices[m]) => AllReviewed(Upsert(prices[m], rows))
    BY <2>5, UpsertReviewed
  <2> QED BY <1>1, <1>2, <2>2, <2>4, <2>6, <2>7, SpyLine
<1>7. CASE RefreshActions
  <2>1. PICK w \in RepairWindows, named \in SUBSET Lines, down \in SUBSET Lines :
          LET lines == Candidates(prices, w[1], w[2]) \cup named
              rows(l) == IF l = Spy THEN FetchActions(l, w[1], w[2], Completed)
                         ELSE Relabelled(l, FetchActions(l, w[1], w[2], Completed)) IN
          /\ w[1] \in DOMAIN prices[Spy] /\ named \subseteq {Spy}
          /\ prices' = [l \in Lines |-> IF l \in lines \ down THEN Upsert(prices[l], rows(l)) ELSE prices[l]]
    BY <1>7 DEF RefreshActions
  <2>2. w[1] \in Nat /\ w[2] \in Int
    BY DailyAssumption
  <2>3. ASSUME NEW l \in Members, AllReviewed(History[l]) PROVE prices'[l] = prices[l]
    <3>1. l \notin Candidates(prices, w[1], w[2])
      BY <1>2, <2>3 DEF Candidates, AllReviewed
    <3>2. l \in Lines /\ l # Spy
      BY <2>3, SpyLine
    <3> QED BY <2>1, <3>1, <3>2
  <2>4. ASSUME NEW l \in Lines PROVE IsQuoted(l, prices'[l])
    <3> DEFINE rows == IF l = Spy THEN FetchActions(l, w[1], w[2], c)
                       ELSE Relabelled(l, FetchActions(l, w[1], w[2], c))
    <3>1. CASE prices'[l] = prices[l]
      BY <1>1, <3>1
    <3>2. CASE prices'[l] # prices[l]
      <4>1. prices'[l] = Upsert(prices[l], rows)
        BY <2>1, <3>2
      <4>2. \A x \in Splits[l] : x <= w[1]
        BY <2>3, <3>2 DEF Premises
      <4>3. IsQuoted(l, FetchActions(l, w[1], w[2], c))
        BY <2>2, <4>2, ActionQuoted
      <4>4. IsQuoted(l, rows)
        <5>1. l = Spy \/ l \in Members
          BY DEF Lines
        <5> QED BY <4>3, <5>1, RelabelledQuoted
      <4> HIDE DEF rows
      <4> QED BY <1>1, <4>1, <4>4, UpsertQuoted
    <3> QED BY <3>1, <3>2
  <2> QED BY <1>2, <2>3, <2>4
<1> QED BY <1>4, <1>5, <1>6, <1>7, PricesMove

\* As long as no line splits after the start of a window in which its actions
\* are repaired, the price that is read from a stored row with a known factor is
\* the price that was quoted that day (QuotedBasis: factor_price_from_row).
THEOREM QuotesTrue == ASSUME Premises PROVE Spec => []QuotedBasis
<1>1. Init => QuotedKept
  BY DEF Init, QuotedKept, QuotedBasis, Premises, AllReviewed
<1>2. IInv /\ QuotedKept /\ [Next]_vars => QuotedKept'
  BY QuotedStep DEF IInv
<1>3. QuotedKept => QuotedBasis
  BY DEF QuotedKept
<1> QED BY <1>1, <1>2, <1>3, Invariant, PTL DEF Spec

=============================================================================
