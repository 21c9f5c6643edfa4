------------------------------ MODULE Backtest ------------------------------
(***************************************************************************)
(* The point-in-time backtest (backtest/engine.py) and the paper account's *)
(* book (paper.py), over the portfolio of TradingBook.                     *)
(*                                                                         *)
(* A run walks the quarterly decisions of its range.  Each period is       *)
(* evaluated (enough eligible members, a usable regime), then four books   *)
(* (the regime policy and the fixed baseline, each with and without        *)
(* costs and taxes) are advanced as copies that are kept only together,    *)
(* and a benchmark book follows completed periods only.  Beside it the     *)
(* paper account executes one approved rebalance and marks its holdings    *)
(* close by close, stored and read back between any two operations.        *)
(***************************************************************************)
EXTENDS TradingBook

CONSTANTS
  Decision,    \* sequence of the decision dates, the last one ends the run
  World,       \* the possible stored histories (see History)
  Board,       \* the possible factor tables: ticker -> what is known of it
  Excluded,    \* tickers the configuration excludes
  TopN,        \* holdings selected per period
  Terms,       \* costs and taxes of the net books
  PaperTerms,  \* costs of the paper book, which pays no tax
  Index        \* the benchmark ticker

ASSUME BacktestAssumption ==
  /\ Decision \in Seq(Nat)
  /\ \A i, j \in DOMAIN Decision : i < j => Decision[i] < Decision[j]
  /\ Terms \in Rates /\ PaperTerms \in Rates /\ Index \in Ticker
  /\ \A w \in World : History(w)

VARIABLES
  world,      \* the stored history this behaviour runs against
  phase,      \* "idle", "running", "done" or "aborted"
  books,      \* the four books of the run
  contiguous, \* no period has been skipped so far
  bench,      \* [book, contiguous] of the benchmark
  periods,    \* sequence of [status, start, end, benchmark]
  paper       \* the paper account's book

backtestVars == <<world, phase, books, contiguous, bench, periods, paper>>

BookName == {"regime", "regime_gross", "baseline", "baseline_gross"}

Net(name) == name \in {"regime", "baseline"}

Period == 1..(Len(Decision) - 1)

(***************************************************************************)
(* Evaluating a decision date.                                             *)
(***************************************************************************)
Unscored == 0

\* Quality and value weights in percent, by regime.
Baseline == [quality |-> 60, value |-> 40]

Weights(regime) ==
  CASE regime = "reflation"    -> [quality |-> 45, value |-> 55]
    [] regime = "stagflation"  -> [quality |-> 65, value |-> 35]
    [] regime = "deflationary" -> [quality |-> 55, value |-> 45]
    [] regime = "risk_off"     -> [quality |-> 70, value |-> 30]
    [] OTHER                   -> Baseline

Eligible(board) ==
  {t \in Ticker : /\ board[t].quality # Unscored /\ board[t].value # Unscored
                  /\ t \notin Excluded
                  /\ board[t].fresh /\ board[t].fundamentals}

Score(row, weights) == weights.quality * row.quality + weights.value * row.value

\* The best n by score, ties in ticker order (here: the order of the securities).
Selected(board, weights) ==
  LET better(t, u) ==
        \/ Score(board[t], weights) > Score(board[u], weights)
        \/ /\ Score(board[t], weights) = Score(board[u], weights)
           /\ Rank(SecurityOf[t]) < Rank(SecurityOf[u])
  IN {t \in Eligible(board) :
        Cardinality({u \in Eligible(board) : better(u, t)}) < TopN}

Regime == {"unready", "goldilocks", "reflation", "risk_off"}

Evaluated(regime, board) ==
  IF regime = "unready" THEN "skipped_regime"
  ELSE IF Cardinality(Eligible(board)) < TopN THEN "skipped_coverage"
  ELSE "ready"

EntryDay(i) == CHOOSE d \in world.open :
              /\ Decision[i] < d
              /\ \A e \in world.open : e > Decision[i] => d <= e

ExitDay(i) == Decision[i + 1]

(***************************************************************************)
(* The four candidate books of a period, kept only together.               *)
(***************************************************************************)
Moved(name, picks, i) ==
  Advance(books[name], picks, Decision[i], EntryDay(i), ExitDay(i), world)

Candidates(policy, fixed, i) ==
  [n \in BookName |->
     Moved(n, IF n \in {"regime", "regime_gross"} THEN policy ELSE fixed, i)]

Simulated_Fault(c) ==  \* each book keeps its own progress (a fault)
  [done |-> \A n \in BookName : c[n].done, books |-> [n \in BookName |-> c[n].book]]

Simulated(c) ==
  IF \A n \in BookName : c[n].done
  THEN [done |-> TRUE, books |-> [n \in BookName |-> c[n].book]]
  ELSE [done |-> FALSE, books |-> books]

\* The benchmark advances over completed periods, until its own first miss.
Benchmark(status, moved) ==
  IF status # "complete"
  THEN [status |-> "unpaired", state |-> [bench EXCEPT !.contiguous = FALSE]]
  ELSE IF ~bench.contiguous
  THEN [status |-> "discontinuous", state |-> bench]
  ELSE IF moved.done
  THEN [status |-> "complete", state |-> [bench EXCEPT !.book = moved.book]]
  ELSE [status |-> "missing", state |-> [bench EXCEPT !.contiguous = FALSE]]

(***************************************************************************)
(* The run.                                                                *)
(***************************************************************************)
BacktestInit ==
  /\ world \in World
  /\ phase = "idle"
  /\ books = [n \in BookName |-> NewBook(IF Net(n) THEN Terms ELSE Gross)]
  /\ contiguous = TRUE
  /\ bench = [book |-> NewBook(Gross), contiguous |-> TRUE]
  /\ periods = <<>>
  /\ paper = NewBook(PaperTerms)

\* A bound: the run and the paper account share nothing but the stored history,
\* so a behaviour moves one of the two.
Apart == paper.last = Unmarked

\* Failed data validation or a range with fewer than two decisions refuses the run.
Start ==
  /\ phase = "idle" /\ Apart
  /\ phase' = IF world.valid /\ Len(Decision) >= 2 THEN "running" ELSE "aborted"
  /\ UNCHANGED <<world, books, contiguous, bench, periods, paper>>

Equities(c) == [n \in BookName |-> Equity(c[n])]

\* What a period does to the run: "after" are its books, "benchmark" its line.
Report(status, after, benchmark) ==
  /\ books' = after
  /\ contiguous' = (contiguous /\ status = "complete")
  /\ bench' = benchmark.state
  /\ periods' = Append(periods,
       [status |-> status, benchmark |-> benchmark.status,
        start |-> Equities(books), end |-> Equities(after)])
  /\ UNCHANGED <<world, phase, paper>>

Skipped(status) == Report(status, books, Benchmark(status, [done |-> FALSE]))

Paired(status, after, i) ==
  Report(status, after,
         Benchmark(status, Advance(bench.book, {Index}, Decision[i], EntryDay(i), ExitDay(i), world)))

RunPeriod(regime, board) ==
  LET i == Len(periods) + 1
      status == Evaluated(regime, board)
  IN /\ phase = "running" /\ i \in Period
     /\ \/ status # "ready" /\ Skipped(status)
        \/ status = "ready" /\ ~contiguous /\ Skipped("skipped_discontinuity")
        \/ /\ status = "ready" /\ contiguous
           /\ \E sim \in {Simulated(Candidates(Selected(board, Weights(regime)),
                                              Selected(board, Baseline), i))} :
                Paired(IF sim.done THEN "complete" ELSE "skipped_missing", sim.books, i)

Days(book) == [i \in DOMAIN book.curve |-> book.curve[i].day]

\* _combine_equity_curves: a net curve is reported beside its gross curve.
Aligned == /\ Days(books["regime"]) = Days(books["regime_gross"])
           /\ Days(books["baseline"]) = Days(books["baseline_gross"])

Finish ==
  /\ phase = "running" /\ Len(periods) = Len(Decision) - 1
  /\ phase' = IF Aligned THEN "done" ELSE "aborted"
  /\ UNCHANGED <<world, books, contiguous, bench, periods, paper>>

(***************************************************************************)
(* The paper account: the approved targets of a decision are filled at the *)
(* next session's close; every other close only marks the holdings.        *)
(***************************************************************************)
Booking(moved) ==
  /\ moved.done
  /\ paper' = moved.book
  /\ UNCHANGED <<world, phase, books, contiguous, bench, periods>>

PaperExecute(i, picks) ==
  /\ phase = "idle" /\ Readable(paper)
  /\ Booking(Advance(paper, picks, Decision[i], EntryDay(i), EntryDay(i), world))

PaperMark(through) ==
  /\ phase = "idle" /\ Readable(paper)
  /\ paper.last # Unmarked /\ paper.last < through
  /\ Booking(MarkThrough(paper, through, world))

BacktestNext ==
  \/ Start
  \/ \E r \in Regime, b \in Board : RunPeriod(r, b)
  \/ Finish
  \/ \E i \in Period, t \in {p \in SUBSET Ticker : Cardinality(p) = TopN} :
       PaperExecute(i, t)
  \/ \E d \in world.open : PaperMark(d)

BacktestSpec == BacktestInit /\ [][BacktestNext]_backtestVars

-----------------------------------------------------------------------------
AllBooks == {books[n] : n \in BookName} \cup {bench.book, paper}

BookOK(b) ==
  /\ b.cash \in Int /\ b.short \in Int /\ b.long \in Int
  /\ b.income \in Nat /\ b.tax \in Nat /\ b.costs \in Nat
  /\ Held(b) \subseteq Key /\ Held(b) \subseteq DOMAIN b.mark
  /\ b.last \in {Unmarked} \cup world.open \cup {Decision[1]}
  /\ ~b.refused

\* The variables keep their shape: books of known securities, a run that is
\* idle, running, done or aborted, and one report line per period.
BacktestTypeOK ==
  /\ world \in World
  /\ phase \in {"idle", "running", "done", "aborted"}
  /\ DOMAIN books = BookName /\ \A b \in AllBooks : BookOK(b)
  /\ contiguous \in BOOLEAN /\ bench.contiguous \in BOOLEAN
  /\ DOMAIN periods \subseteq Period

\* Through partial sales of several lots, splits, conversions, dividends and
\* taxes no money appears or disappears: what a book holds, in cash and at
\* cost, is its capital plus what it realized less the taxes accrued; and the
\* costs and taxes of a rebalance are never paid with borrowed cash.
BooksBalance ==
  \A b \in AllBooks :
    /\ b.cash + SumFunction([k \in Held(b) |-> Basis(b.lots[k])])
         = Capital + b.short + b.long + b.income - b.tax
    /\ b.cash >= 0

\* The compared books never drift apart: after any number of skipped and
\* completed periods all four are valued on exactly the sessions up to the last
\* completed exit, and the benchmark on the same ones while it is paired.
PairedBooks ==
  LET completed == {i \in DOMAIN periods : periods[i].status = "complete"}
      expected == IF completed = {} THEN {}
                  ELSE {d \in world.open \cup {Decision[1]} :
                          /\ Decision[1] <= d
                          /\ d <= Decision[Cardinality(completed) + 1]}
  IN /\ \A n \in BookName : /\ Range(Days(books[n])) = expected
                            /\ Len(books[n].curve) = Cardinality(expected)
     /\ bench.contiguous => Range(Days(bench.book)) = expected
     /\ phase = "aborted" => ~world.valid \/ Len(Decision) < 2

\* The periods reported complete are an unbroken prefix, and chain: each starts
\* from the equity the one before ended with, and the last one ends with what
\* the equity curve shows, so the compounded return is that of the curve.
ReportAddsUp ==
  \A i \in DOMAIN periods : periods[i].status = "complete" =>
    /\ \A j \in 1..(i - 1) : periods[j].status = "complete"
    /\ i > 1 => periods[i].start = periods[i - 1].end
    /\ (i = Len(periods) \/ periods[i + 1].status # "complete") =>
         \A n \in BookName : periods[i].end[n] = Last(books[n].curve).equity

\* A reviewed conversion "terminates one immutable security position and
\* creates another" (store.py, upsert_security_conversions): once a book is
\* valued on or after the day it takes effect, it holds none of the old shares.
SharesMoveOn ==
  \A b \in AllBooks, e \in world.conversions :
    ~(e.from \in Held(b) /\ e.day <= b.last
      /\ \A i \in DOMAIN b.lots[e.from] : b.lots[e.from][i].bought < e.day)

\* The books keep their shape and their money adds up (PortfolioBook).
BooksInv == BacktestTypeOK /\ BooksBalance

=============================================================================
