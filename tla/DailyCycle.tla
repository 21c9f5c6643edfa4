------------------------------- MODULE DailyCycle -------------------------------
(***************************************************************************)
(* The recoverable daily update (src/src/aios/daily.py, refresh.py,        *)
(* readiness.py, the job part of alerts.py and the commands                *)
(* refresh-us-daily and refresh-price-actions of cli.py) over the prices   *)
(* and macro series it refreshes.                                          *)
(*                                                                         *)
(* One run at a time holds the project lease.  It refreshes the benchmark, *)
(* extends the universe, refreshes macro series and members, and certifies *)
(* its target session.  A killed run leaves its job row running; the next  *)
(* start marks it interrupted unless its process id belongs to a live      *)
(* program.  A failed run opens one incident, which a certified run closes.*)
(*                                                                         *)
(* Time 2d is the evening of session d, 2d + 1 the morning after: in both  *)
(* d is the latest completed session, and the local date is d, then d + 1. *)
(***************************************************************************)
EXTENDS PriceStore, MacroVintages, Sequences

CONSTANTS
  MemberOrder,   \* the members, in the order they are refreshed
  History,       \* line -> stored prices at the start
  FirstDay,      \* the session certified at the start, an evening before the first step
  MinCovered,    \* members a session needs (90 % in the code)
  PriceAge,      \* oldest price readiness accepts, in days
  CircuitLimit,  \* transport failures in a row that stop the members
  Window,        \* rows of a price factor (253 in the code)
  MaxFaults,     \* bound: bad answers, kills and announcements to review
  MaxRepairs,    \* bound: refresh-price-actions
  RepairWindows  \* bound: the windows it is asked for, <<first day, end>>

\* A row of prices: how often its provider had halved the close, the factor that
\* restores it, whether it is restated for splits and whether it was reviewed.
RowType == [basis : Nat, factor : Nat \cup {Unknown}, adjusted : BOOLEAN, safe : BOOLEAN]

\* What is stored at the start is what refreshes left: well typed, without a
\* hole, and of a member nothing from before its reviewed symbol.
ASSUME DailyAssumption ==
  /\ MemberOrder \in Seq(Members) /\ FirstDay \in 0..(LastDay - 1)
  /\ DOMAIN History = Lines
  /\ \A l \in Lines :
       /\ History[l] = [d \in DOMAIN History[l] |-> History[l][d]]
       /\ DOMAIN History[l] \subseteq 0..FirstDay
       /\ \A d \in DOMAIN History[l] : History[l][d] \in RowType
       /\ \A d, e \in DOMAIN History[l] : d..e \subseteq DOMAIN History[l]
  /\ \A m \in Members : \A d \in DOMAIN History[m] : Listed[m] <= d
  /\ MinCovered \in Nat /\ PriceAge \in Nat /\ Window \in Nat
  /\ CircuitLimit \in Nat \ {0}
  /\ MaxFaults \in Nat /\ MaxRepairs \in Nat
  /\ \A w \in RepairWindows : w = <<w[1], w[2]>> /\ w[1] \in Nat /\ w[2] \in Nat

VARIABLES
  clock,
  prices,        \* line -> stored series
  macro,         \* series -> stored rows
  fetched,       \* series -> day of its last complete fetch (history variable)
  universe,      \* dated membership reaches this day
  job,           \* newest row of job_runs
  certified,     \* targets with a successful job row
  run,           \* the run that holds the lease
  incident,      \* the incident of failed updates
  squatter,      \* the process id of a killed run belongs to a live program
  faults, repairs
vars == <<clock, prices, macro, fetched, universe, job, certified, run, incident,
          squatter, faults, repairs>>
data == <<prices, macro, fetched, universe>>

Completed == CHOOSE d \in 0..LastDay : clock \in {2 * d, 2 * d + 1}
Today == IF clock = 2 * Completed THEN Completed ELSE Completed + 1
Answers == {Completed, Completed - 1, Down}
\* Without a key Tiingo is not asked, and cannot fail.
TiingoAnswers == IF Tiingo THEN {Completed, Down} ELSE {Completed}
Failing(n) == faults + n <= MaxFaults /\ faults' = faults + n
Bad(through) == IF through = Completed THEN 0 ELSE 1

NoRun == [pc |-> "none"]
Running(pc) == run.pc = pc
Go(pc) == run' = [run EXCEPT !.pc = pc]

\* assess_us_readiness for a paper decision on that day.
Enough(members) == Cardinality(members) >= MinCovered
HistoryCovered(d) == Enough({m \in Members : HasHistory(prices, m, d)})
FreshMembers(d) == Enough({m \in Members : Fresh(prices[m], d, PriceAge)})
CertifiedThrough(d) == Min({BroadThrough(prices, d, MinCovered), universe})
\* (a fault) The certified session is not compared with the day.
Ready_Fault(d) ==
  /\ QualityOK(prices) /\ universe >= d
  /\ HistoryCovered(d) /\ FreshMembers(d) /\ Fresh(prices[Spy], d, PriceAge)
  /\ RegimeReady(macro, d)
Ready(d) ==
  /\ QualityOK(prices) /\ universe >= d
  /\ HistoryCovered(d) /\ FreshMembers(d) /\ Fresh(prices[Spy], d, PriceAge)
  /\ RegimeReady(macro, d)
  /\ CertifiedThrough(d) = d

(***************************************************************************)
(* A run.                                                                  *)
(***************************************************************************)

\* latest_job and begin_job.  A run that is still marked running is
\* interrupted, which the new row hides.
\* (a fault) A row that is still running is never taken over.
Start_Fault(force) ==
  /\ run = NoRun /\ job.state # "running"
  /\ run' = [pc |-> "check", target |-> Completed, todo |-> MemberOrder, failed |-> FALSE, streak |-> 0,
             current |-> ~ force /\ job = [state |-> "success", target |-> Completed]]
  /\ job' = [state |-> "running", target |-> Completed]
  /\ UNCHANGED <<clock, data, certified, incident, squatter, faults, repairs>>
Start(force) ==
  /\ run = NoRun /\ ~ (job.state = "running" /\ squatter)
  /\ run' = [pc |-> "check", target |-> Completed, todo |-> MemberOrder, failed |-> FALSE, streak |-> 0,
             current |-> ~ force /\ job = [state |-> "success", target |-> Completed]]
  /\ job' = [state |-> "running", target |-> Completed]
  /\ UNCHANGED <<clock, data, certified, incident, squatter, faults, repairs>>

\* begin_job refuses outside of the try: only the incident is left.
Refused ==
  /\ run = NoRun /\ job.state = "running" /\ squatter /\ incident # "open"
  /\ incident' = "open"
  /\ UNCHANGED <<clock, data, job, certified, run, squatter, faults, repairs>>

\* finish_job, with the last state of the row and what reports it.
Finish(state, report) ==
  /\ job' = [job EXCEPT !.state = state]
  /\ certified' = certified \cup IF state = "success" THEN {run.target} ELSE {}
  /\ Go(report)
  /\ UNCHANGED <<clock, data, incident, squatter, repairs>>

Check ==
  /\ Running("check")
  /\ IF run.current /\ Ready(run.target)
     THEN Finish("success", "recover") /\ UNCHANGED faults
     ELSE Go("benchmark") /\ UNCHANGED <<clock, data, job, certified, incident, squatter, faults, repairs>>

Ingest(line, rows) ==
  /\ prices' = [prices EXCEPT ![line] = Upsert(@, rows)]
  /\ UNCHANGED <<clock, macro, fetched, universe, job, certified, incident, squatter, repairs>>

\* The benchmark defines the session: a day without a reviewed close stops the run.
Benchmark ==
  /\ Running("benchmark")
  /\ \E yahoo \in Answers, tiingo \in TiingoAnswers, stooq \in {Completed, Down} :
       /\ Failing(Bad(yahoo) + Bad(tiingo) + Bad(stooq))
       /\ \E rows \in {BenchmarkRows(prices[Spy], Completed, yahoo, tiingo, stooq)} :
          /\ Ingest(Spy, rows)
          /\ Go(IF rows # << >> /\ LatestClose(prices'[Spy], run.target) >= run.target
                THEN "universe" ELSE "fail")

\* Announcements to review, or an archive that does not answer, stop the run.
Universe ==
  /\ Running("universe")
  /\ \/ universe' = Max({universe, run.target}) /\ Go("macro") /\ UNCHANGED faults
     \/ Failing(1) /\ Go("fail") /\ UNCHANGED universe
  /\ UNCHANGED <<clock, prices, macro, fetched, job, certified, incident, squatter, repairs>>

\* ingest_macro: every series, and the Treasury's yields beside FRED's, which
\* stand in for a yield that failed.
Macro ==
  /\ Running("macro")
  /\ \E down \in SUBSET Series, treasury \in BOOLEAN :
       /\ Failing(Cardinality(down) + IF treasury THEN 0 ELSE 1)
       /\ macro' = [s \in Series |->
            UpsertMacro(IF s \in down THEN macro[s] ELSE Refreshed(s, macro[s], Completed),
                        IF treasury THEN TreasuryRows(s, Completed) ELSE {})]
       /\ fetched' = [s \in Series |-> IF s \in down THEN fetched[s] ELSE Completed]
       /\ run' = [run EXCEPT !.pc = "members",
                             !.failed = (down \ (IF treasury THEN Yields ELSE {})) # {}
                                        \/ \E m \in Members : Listed[m] > run.target]
  /\ UNCHANGED <<clock, prices, universe, job, certified, incident, squatter, repairs>>

\* The next member: an answer without rows and a failed request are retained,
\* and enough transport failures in a row leave the rest alone.
Member ==
  /\ Running("members") /\ run.todo # << >>
  /\ \E yahoo \in Answers, transport \in BOOLEAN :
       /\ transport => yahoo = Down
       /\ Failing(Bad(yahoo))
       /\ \E rows \in {MemberRows(Head(run.todo), prices[Head(run.todo)], Completed, Today, yahoo)},
             streak \in {IF transport THEN run.streak + 1 ELSE 0} :
          /\ Ingest(Head(run.todo), rows)
          /\ run' = [run EXCEPT !.failed = @ \/ rows = << >>, !.streak = streak,
                                !.todo = IF streak >= CircuitLimit THEN << >> ELSE Tail(@)]

MembersDone ==
  /\ Running("members") /\ run.todo = << >>
  /\ Go(IF run.failed THEN "fail" ELSE "readiness")
  /\ UNCHANGED <<clock, data, job, certified, incident, squatter, faults, repairs>>

Readiness ==
  /\ Running("readiness")
  /\ IF Ready(run.target)
     THEN Finish("success", "recover") /\ UNCHANGED faults
     ELSE Go("fail") /\ UNCHANGED <<clock, data, job, certified, incident, squatter, faults, repairs>>

Fail == Running("fail") /\ Finish("failed", "report") /\ UNCHANGED faults

\* The command of a failed run records the incident, after its job row.
Report ==
  /\ Running("report")
  /\ incident' = "open" /\ run' = NoRun
  /\ UNCHANGED <<clock, data, job, certified, squatter, faults, repairs>>

\* _record_daily_cycle_recovery: the incident closes with the receipt of this
\* very run, which is the newest row, and a fresh readiness report.
Receipt == job = [state |-> "success", target |-> run.target] /\ Ready(run.target)
\* (a fault) Only a run that refreshed closes it.
Recover_Fault ==
  /\ Running("recover")
  /\ incident' = IF incident = "open" /\ ~ run.current /\ Receipt THEN "resolved" ELSE incident
  /\ run' = NoRun
  /\ UNCHANGED <<clock, data, job, certified, squatter, faults, repairs>>
Recover ==
  /\ Running("recover")
  /\ incident' = IF incident = "open" /\ Receipt THEN "resolved" ELSE incident
  /\ run' = NoRun
  /\ UNCHANGED <<clock, data, job, certified, squatter, faults, repairs>>

Step == \/ Check \/ Benchmark \/ Universe \/ Macro \/ Member \/ MembersDone
        \/ Readiness \/ Fail \/ Report \/ Recover

(***************************************************************************)
(* What happens around a run.                                              *)
(***************************************************************************)

\* The process dies anywhere; its id may come back as another program's.
Kill ==
  /\ run # NoRun /\ Failing(1) /\ run' = NoRun
  /\ squatter' \in (IF job.state = "running" THEN BOOLEAN ELSE {squatter})
  /\ UNCHANGED <<clock, data, job, certified, incident, repairs>>

\* That program ends, or the machine reboots.
SquatterExits ==
  /\ squatter /\ squatter' = FALSE
  /\ UNCHANGED <<clock, data, job, certified, run, incident, faults, repairs>>

\* refresh-price-actions over a window: the members with unverified rows there
\* and, when it is named, the benchmark; each line may fail.  (A bound, not a
\* guard: a window starts at a stored session, as it corrects stored rows.)
RefreshActions ==
  /\ run = NoRun /\ repairs < MaxRepairs /\ repairs' = repairs + 1
  /\ \E w \in RepairWindows, named, down \in SUBSET Lines :
       LET lines == Candidates(prices, w[1], w[2]) \cup named
           rows(l) == IF l = Spy THEN FetchActions(l, w[1], w[2], Completed)
                      ELSE Relabelled(l, FetchActions(l, w[1], w[2], Completed)) IN
       /\ w[1] \in DOMAIN prices[Spy] /\ named \subseteq {Spy} /\ down \subseteq lines /\ lines # {}
       /\ Failing(Cardinality(down))
       /\ prices' = [l \in Lines |-> IF l \in lines \ down THEN Upsert(prices[l], rows(l)) ELSE prices[l]]
  /\ UNCHANGED <<clock, macro, fetched, universe, job, certified, run, incident, squatter>>

Tick ==
  /\ clock <= 2 * LastDay /\ clock' = clock + 1
  /\ UNCHANGED <<data, job, certified, run, incident, squatter, faults, repairs>>

Init ==
  /\ clock = 2 * (FirstDay + 1)
  /\ prices = History
  /\ fetched = [s \in Series |-> FirstDay]
  /\ macro = [s \in Series |-> FetchSeries(s, 0, FirstDay)]
  /\ universe = FirstDay
  /\ job = [state |-> "success", target |-> FirstDay]
  /\ certified = {FirstDay}
  /\ run = NoRun /\ incident = "none" /\ squatter = FALSE
  /\ faults = 0 /\ repairs = 0

Next ==
  \/ \E force \in BOOLEAN : Start(force)
  \/ Refused \/ Step \/ Kill \/ SquatterExits \/ RefreshActions \/ Tick
Spec == Init /\ [][Next]_vars

\* The timer, the restart on failure and the start of the machine run the update
\* again; a run that is not killed goes on; days pass and programs end.
Fairness ==
  /\ WF_vars(\E force \in BOOLEAN : Start(force))
  /\ WF_vars(Step) /\ WF_vars(Tick) /\ WF_vars(SquatterExits)
FairSpec == Spec /\ Fairness

(***************************************************************************)
(* Properties.                                                             *)
(***************************************************************************)
\* Types of the variables.
TypeOK ==
  /\ clock \in 0..(2 * LastDay + 1) /\ universe \in 0..LastDay
  /\ \A l \in Lines : /\ DOMAIN prices[l] \subseteq 0..LastDay
                      /\ \A d \in DOMAIN prices[l] : prices[l][d] \in RowType
  /\ \A s \in Series : \A r \in macro[s] : {r.obs, r.rel} \subseteq 0..LastDay
  /\ fetched \in [Series -> 0..LastDay]
  /\ job \in [state : {"running", "success", "failed"}, target : 0..LastDay]
  /\ certified \subseteq 0..LastDay
  /\ run.pc \in {"none", "check", "benchmark", "universe", "macro", "members", "readiness",
                 "fail", "report", "recover"}
  /\ incident \in {"none", "open", "resolved"} /\ squatter \in BOOLEAN
  /\ faults \in 0..MaxFaults /\ repairs \in 0..MaxRepairs

\* The price Value reads from a stored row with a known factor is the price
\* that was quoted that day, whichever answers and windows the row came from.
QuotedBasis ==
  \A l \in Lines : \A d \in DOMAIN prices[l] :
    FactorPrice(l, d, prices[l][d]) \in {Quoted(l, d), Unknown}

\* However long the machine was off or the providers failed, the sessions
\* stored for a line have no hole that a later refresh would never fetch.
GapFree ==
  \A l \in Lines : \A d, e \in DOMAIN prices[l] : d..e \subseteq DOMAIN prices[l]

\* Up to the day of its last complete fetch a series answers for every past day
\* what FRED had published then, revisions included: a Treasury row neither
\* shows before its day nor hides what FRED has published.
MacroKnown ==
  \A s \in Series : \A d \in 0..fetched[s] : \A v \in Vintages[s] :
    \/ Pit(macro[s], v.obs, d) = Published(s, v.obs, d)
    \/ /\ Published(s, v.obs, d) = NoValue /\ s \in Yields /\ v.obs <= d
       /\ Pit(macro[s], v.obs, d) = TreasuryValue

\* A session is only certified when the benchmark and enough members have
\* reviewed prices on that very day, the universe reaches it and no mandatory
\* series is behind it: no mix of failed, late, killed and repeated runs
\* certifies a session refreshed in part.
CertifiedTrue ==
  [][\A d \in certified' \ certified :
       /\ d \in DOMAIN prices[Spy] /\ prices[Spy][d].safe
       /\ Cardinality({m \in Members : d \in DOMAIN prices[m] /\ prices[m][d].safe}) >= MinCovered
       /\ universe >= d
       /\ \A s \in Series \ Yields : fetched[s] >= d]_vars

\* When the faults end, the last session is certified: a killed run, a process
\* id in use, a failed or a late provider never block the update for good.
EventuallyCertified == <>[](LastDay \in certified)

\* The incident of a failed update does not outlive the recovery, also when the
\* run that recovered was killed before it could report.
IncidentCloses == []<>(incident # "open")

\* The returns of an accepted window are true: no split shows as a return.
ReturnsTrue ==
  \A l \in Lines : \A day \in DOMAIN prices[l] :
    Accepted(prices[l], day, Window) =>
      \A d \in (day - Window + 2)..day : DailyReturn(l, prices[l], d) = 0

\* The stores, the job and the run have their types, and no line has a hole
\* (refresh_prices).
PricesInv == TypeOK /\ GapFree

================================================================================
