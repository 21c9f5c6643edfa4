---------------------------- MODULE TradingBook ----------------------------
(***************************************************************************)
(* The simulated portfolio (backtest/portfolio.py, backtest/costs.py):     *)
(* cash, positions made of FIFO tax lots, the tax ledger and the daily     *)
(* equity curve, as a record and the operations on it.                     *)
(*                                                                         *)
(* Money and shares are whole numbers: a trade moves whole shares and the  *)
(* fraction of a share stays in cash.  A lot keeps its total basis instead *)
(* of a basis per share, so that splitting a lot loses nothing.  An        *)
(* operation that raises _PortfolioDataError sets "refused"; the callers   *)
(* that advance or mark a book then give the old book back.                *)
(***************************************************************************)
EXTENDS Integers, Sequences, FiniteSets, FiniteSetsExt, SequencesExt

CONSTANTS
  Security,    \* sequence of the immutable security ids, in key order
  Ticker,      \* the tickers a selection can name
  SecurityOf,  \* the security a ticker means on the decision date
  Capital,     \* initial capital
  LongDays,    \* days a lot is held before its gain is a long-term one
  Unmarked     \* "no valuation yet": a number below every day

Key == Range(Security)

\* Costs in basis points and a fee per trade; taxes in percent.
Rates == [bps : Nat, fee : Nat, short : 0..100, long : 0..100, dividend : 0..100]

ASSUME TradingBookAssumption ==
  /\ Capital \in Nat \ {0} /\ LongDays \in Nat \ {0}
  /\ Security \in Seq(Key) /\ SecurityOf \in [Ticker -> Key]
  /\ Unmarked \in Int /\ Unmarked < 0

\* What is stored: verified or not, with a split and a dividend of the day.
PriceRow == [close : Nat, split : Nat \ {0}, dividend : Nat, adjusted : BOOLEAN, verified : BOOLEAN]

\* A conversion never targets its own source (the store refuses the import).
Conversion ==
  {e \in [from : Key, to : Key, day : Nat, ratio : Nat \ {0}] : e.from # e.to}

\* A stored history; a security is converted at most once.
History(world) ==
  /\ world.open \subseteq Nat
  /\ \A k \in Key, d \in world.open : world.rows[k][d] \in PriceRow
  /\ world.conversions \subseteq Conversion /\ IsFiniteSet(world.conversions)
  /\ \A e, f \in world.conversions : e.from = f.from => e = f

Rank(key) == CHOOSE i \in DOMAIN Security : Security[i] = key

Missing == [close |-> 0, split |-> 1, dividend |-> 0,
            adjusted |-> FALSE, verified |-> TRUE]

Priced(row) == row.close > 0

(***************************************************************************)
(* The costs and the taxes.                                                *)
(***************************************************************************)
Gross == [bps |-> 0, fee |-> 0, short |-> 0, long |-> 0, dividend |-> 0]

Cost(terms, notional) == (notional * terms.bps) \div 10000 + terms.fee

TaxesDue(b) ==
  (Max({b.short, 0}) * b.terms.short) \div 100
    + (Max({b.long, 0}) * b.terms.long) \div 100
    + (b.income * b.terms.dividend) \div 100

Provide(b, due) == [b EXCEPT !.cash = b.cash - (due - b.tax), !.tax = due]

SyncTax(b) == Provide(b, TaxesDue(b))

(***************************************************************************)
(* The book.                                                               *)
(***************************************************************************)
NewBook(terms) ==
  [terms |-> terms, cash |-> Capital, lots |-> <<>>, mark |-> <<>>,
   marked |-> <<>>, short |-> 0, long |-> 0, income |-> 0, tax |-> 0,
   costs |-> 0, last |-> Unmarked, curve |-> <<>>, refused |-> FALSE]

Refused(b) == [b EXCEPT !.refused = TRUE]

Held(b) == DOMAIN b.lots

Shares(lots) == SumFunction([i \in DOMAIN lots |-> lots[i].shares])

Basis(lots) == SumFunction([i \in DOMAIN lots |-> lots[i].basis])

LotsOf(b, key) == IF key \in Held(b) THEN b.lots[key] ELSE <<>>

WithLots(b, key, lots) ==
  [b EXCEPT !.lots = [k \in (DOMAIN b.lots) \cup {key} |->
                        IF k = key THEN lots ELSE b.lots[k]]]

Without(f, key) == [k \in (DOMAIN f) \ {key} |-> f[k]]

Valued(f, values) ==  \* f, overwritten by values
  [k \in (DOMAIN f) \cup (DOMAIN values) |->
     IF k \in DOMAIN values THEN values[k] ELSE f[k]]

Equity(b) ==
  b.cash + SumFunction([k \in Held(b) |-> Shares(b.lots[k]) * b.mark[k]])

RecordEquity_Fault(b, day) ==  \* the curve shows the equity before taxes (a fault)
  IF b.curve # <<>> /\ Last(b.curve).day = day THEN b
  ELSE [b EXCEPT
          !.curve = Append(b.curve,
             [day |-> day, equity |-> Equity(b) + b.tax,
              stale |-> {k \in Held(b) : b.marked[k] # day}]),
          !.last = day]

RecordEquity(b, day) ==
  IF b.curve # <<>> /\ Last(b.curve).day = day THEN b
  ELSE [b EXCEPT
          !.curve = Append(b.curve,
             [day |-> day, equity |-> Equity(b),
              stale |-> {k \in Held(b) : b.marked[k] # day}]),
          !.last = day]

(***************************************************************************)
(* One session: conversions first, then splits, dividends and the marks.   *)
(* "rows" gives the row of every loaded security on that day.              *)
(***************************************************************************)
Convert(b, event, day, rows) ==
  IF event.day # day \/ event.from \notin Held(b) THEN b
  ELSE IF ~Priced(rows[event.to]) THEN Refused(b)
  ELSE LET old == b.lots[event.from]
           carried == [i \in DOMAIN old |->
                         [old[i] EXCEPT !.shares = @ * event.ratio]]
           moved == [b EXCEPT !.lots = Without(b.lots, event.from),
                              !.mark = Without(b.mark, event.from),
                              !.marked = Without(b.marked, event.from)]
       IN WithLots(moved, event.to, LotsOf(b, event.to) \o carried)

ApplyConversions(b, day, events, rows) ==
  FoldLeft(LAMBDA c, e : IF c.refused THEN c ELSE Convert(c, e, day, rows),
           b, events)

AfterSplits(b, rows) ==
  [b EXCEPT !.lots = [k \in Held(b) |->
     IF rows[k].split # 1 /\ ~rows[k].adjusted
     THEN [i \in DOMAIN b.lots[k] |-> [b.lots[k][i] EXCEPT !.shares = @ * rows[k].split]]
     ELSE b.lots[k]]]

Income(b, rows) == SumFunction([k \in Held(b) |-> Shares(b.lots[k]) * rows[k].dividend])

Paid(b, income) ==
  IF income > 0 THEN SyncTax([b EXCEPT !.cash = @ + income, !.income = @ + income]) ELSE b

Quoted(rows) == {k \in DOMAIN rows : Priced(rows[k])}

Marked(b, day, rows) ==
  [b EXCEPT !.mark = Valued(@, [k \in Quoted(rows) |-> rows[k].close]),
            !.marked = Valued(@, [k \in Quoted(rows) |-> day])]

\* A dividend is paid on the shares as the split left them.
WithIncome(b, rows) == Paid(b, Income(b, rows))

ApplySession(b, day, rows) ==
  IF b.refused THEN b ELSE Marked(WithIncome(AfterSplits(b, rows), rows), day, rows)

(***************************************************************************)
(* The rebalance at the entry close: sells first, then buys scaled to the  *)
(* cash that is left after their costs.                                    *)
(***************************************************************************)
SellLot(state, lot, price, day, terms) ==
  \* consume a lot: "left" shares still to sell, "paid" of the net proceeds
  LET sold == Min({state.left, lot.shares})
      part == IF sold = lot.shares THEN lot.basis
              ELSE (lot.basis * sold) \div lot.shares
      done == state.done + sold
      share == (state.net * done) \div state.total
      gain == (share - state.paid) - part
      long == day - lot.bought >= LongDays
  IN IF sold = 0 THEN [state EXCEPT !.kept = Append(@, lot)]
     ELSE [state EXCEPT
             !.left = @ - sold, !.done = done, !.paid = share,
             !.short = IF long THEN @ ELSE @ + gain,
             !.long = IF long THEN @ + gain ELSE @,
             !.kept = IF sold = lot.shares THEN @
                      ELSE Append(@, [lot EXCEPT !.shares = @ - sold,
                                                 !.basis = @ - part])]

Consumed(b, key, shares, price, net, day) ==
  FoldLeft(LAMBDA s, lot : SellLot(s, lot, price, day, b.terms),
           [left |-> shares, total |-> shares, net |-> net,
            done |-> 0, paid |-> 0, short |-> 0, long |-> 0, kept |-> <<>>],
           b.lots[key])

Booked(b, key, net, costs, end) ==
  SyncTax([b EXCEPT !.lots[key] = end.kept, !.cash = @ + net, !.costs = @ + costs,
                    !.short = @ + end.short, !.long = @ + end.long])

Emptied(b, key) ==
  IF b.lots[key] # <<>> THEN b
  ELSE [b EXCEPT !.lots = Without(@, key), !.mark = Without(@, key),
                 !.marked = Without(@, key)]

Settle(b, key, shares, price, costs, day) ==
  IF costs > shares * price THEN Refused(b)
  ELSE Emptied(Booked(b, key, shares * price - costs, costs,
                      Consumed(b, key, shares, price, shares * price - costs, day)), key)

SellShares(b, key, shares, price, day) ==
  Settle(b, key, shares, price, Cost(b.terms, shares * price), day)

Sell(b, key, wanted, price, day) ==
  SellShares(b, key, Min({wanted \div price, Shares(b.lots[key])}), price, day)

BuyShares_Fault(b, key, shares, price, costs, day) ==  \* the costs are left out of the basis (a fault)
  IF shares * price + costs > b.cash \/ shares = 0 THEN Refused(b)
  ELSE WithLots([b EXCEPT !.cash = @ - (shares * price + costs), !.costs = @ + costs,
                          !.mark = Valued(@, [k \in {key} |-> price]),
                          !.marked = Valued(@, [k \in {key} |-> day])],
                key, Append(LotsOf(b, key),
                            [shares |-> shares, basis |-> shares * price, bought |-> day]))

BuyShares(b, key, shares, price, costs, day) ==
  IF shares * price + costs > b.cash \/ shares = 0 THEN Refused(b)
  ELSE WithLots([b EXCEPT !.cash = @ - (shares * price + costs), !.costs = @ + costs,
                          !.mark = Valued(@, [k \in {key} |-> price]),
                          !.marked = Valued(@, [k \in {key} |-> day])],
                key, Append(LotsOf(b, key),
                            [shares |-> shares, basis |-> shares * price + costs, bought |-> day]))

Buy(b, key, wanted, price, day) ==
  BuyShares(b, key, wanted \div price, price,
            Cost(b.terms, (wanted \div price) * price), day)

\* A finite set as a sequence in the order of the relation "before".
Ordered(set, before) ==
  [i \in 1..Cardinality(set) |->
     CHOOSE x \in set : Cardinality({y \in set : <<y, x>> \in before}) = i - 1]

InKeyOrder(keys) == Ordered(keys, {p \in keys \X keys : Rank(p[1]) < Rank(p[2])})

\* Each trade of "keys", up to the amount wanted, until one is refused.
Trades(b, keys, trade(_, _)) ==
  FoldLeft(LAMBDA c, k : IF c.refused THEN c ELSE trade(c, k), b, InKeyOrder(keys))

SellAll(b, over, rows, day) ==
  Trades(b, {k \in DOMAIN over : over[k] >= rows[k].close},
         LAMBDA c, k : Sell(c, k, over[k], rows[k].close, day))

\* The amounts that the cash left can pay, with the costs of paying them.
Scaled(missing, proposed, affordable) ==
  [k \in DOMAIN missing |-> Min({missing[k], (missing[k] * affordable) \div proposed})]

Spent(b) == IF b.cash < 0 THEN Refused(b) ELSE b

BuyScaled(b, amounts, rows, day) ==
  Spent(Trades(b, DOMAIN amounts,
               LAMBDA c, k : Buy(c, k, amounts[k], rows[k].close, day)))

Affordable(b, buys) ==
  ((b.cash - Cardinality(buys) * b.terms.fee) * 10000) \div (10000 + b.terms.bps)

BuyWithin(b, missing, affordable, rows, day) ==
  IF affordable <= 0 THEN Refused(b)
  ELSE BuyScaled(b, Scaled(missing, SumFunction(missing), affordable), rows, day)

BuyAll(b, missing, rows, day) ==
  IF b.refused \/ DOMAIN missing = {} THEN b
  ELSE BuyWithin(b, missing, Affordable(b, DOMAIN missing), rows, day)

\* Both sides are decided on the shares held before the first sale.
Trade(b, worth, want, targets, rows, day) ==
  BuyAll(SellAll(b, [k \in Held(b) |-> worth[k] - want[k]], rows, day),
         [k \in {t \in targets : want[t] - worth[t] >= rows[t].close} |-> want[k] - worth[k]],
         rows, day)

Worth(b, k, rows) == IF k \in Held(b) THEN Shares(b.lots[k]) * rows[k].close ELSE 0

RebalanceAt(b, equity, targets, rows, day) ==
  IF equity <= 0 \/ \E k \in targets \cup Held(b) : ~Priced(rows[k]) THEN Refused(b)
  ELSE Trade(b, [k \in targets \cup Held(b) |-> Worth(b, k, rows)],
             [k \in targets \cup Held(b) |->
                IF k \in targets THEN equity \div Cardinality(targets) ELSE 0],
             targets, rows, day)

Rebalance(b, targets, rows, day) == RebalanceAt(b, Equity(b), targets, rows, day)

(***************************************************************************)
(* The window (start, end]: which securities are loaded, which conversions *)
(* happen, in the order the code applies them, and what is checked first.  *)
(* world.open are the sessions of the calendar, world.rows the stored      *)
(* prices, world.conversions the reviewed conversions.                     *)
(***************************************************************************)
Sessions(world, start, end) == {d \in world.open : start < d /\ d <= end}

Due(world, start, end) == {e \in world.conversions : start < e.day /\ e.day <= end}

\* What "keys" become, directly or through others: the least set closed under
\* the conversions due.
ClosedUnder(keys, due) == \A e \in due : e.from \in keys => e.to \in keys

Reached(world, keys, start, end) ==
  {k \in Key : \A loaded \in SUBSET Key :
     keys \subseteq loaded /\ ClosedUnder(loaded, Due(world, start, end)) => k \in loaded}

ConversionOrder(world, keys, start, end) ==
  LET due == {e \in Due(world, start, end) : e.from \in Reached(world, keys, start, end)}
  IN Ordered(due, {p \in due \X due : \/ p[1].day < p[2].day
                                      \/ p[1].day = p[2].day /\ Rank(p[1].from) < Rank(p[2].from)})

AfterConversions(keys, events, through) ==
  LET due == {e \in Range(events) : e.day <= through}
      step[n \in 0..Cardinality(due)] ==
        IF n = 0 THEN keys
        ELSE (step[n-1] \ {e.from : e \in due})
               \cup {e.to : e \in {x \in due : x.from \in step[n-1]}}
  IN step[Cardinality(due)]

\* Every row of a loaded path has verified actions and one split basis.
PathSound(world, key, start, end) ==
  LET stored == {d \in Sessions(world, start, end) : Priced(world.rows[key][d])}
  IN /\ \A d \in stored : world.rows[key][d].verified
     /\ \A d, e \in stored :
          world.rows[key][d].adjusted = world.rows[key][e].adjusted

Preflight(b, targets, world, events, start, entry, exit) ==
  LET loaded == Reached(world, targets \cup Held(b), start, exit)
      priced(k, d) == Priced(world.rows[k][d])
  IN /\ {entry, exit} \subseteq world.open
     /\ \A e \in Range(events) :
          /\ ~(e.from \in targets /\ e.day <= entry)
          /\ e.day \in world.open
          /\ priced(e.to, e.day)
     /\ \A k \in AfterConversions(targets \cup Held(b), events, entry) :
          priced(k, entry)
     /\ \A k \in AfterConversions(targets, events, exit) : priced(k, exit)
     /\ \A k \in loaded : PathSound(world, k, start, exit)

RowsOn(world, loaded, day) == [k \in loaded |-> world.rows[k][day]]

InDayOrder(days) == Ordered(days, {p \in days \X days : p[1] < p[2]})

Session(b, day, rows, events) ==
  ApplySession(ApplyConversions(b, day, events, rows), day, rows)

Recorded(b, day) == IF b.refused THEN b ELSE RecordEquity(b, day)

Traded(b, targets, rows, day, entry) ==
  IF b.refused \/ day # entry THEN b ELSE Rebalance(b, targets, rows, day)

Closing(b, day, rows, events, targets, entry) ==
  Recorded(Traded(Session(b, day, rows, events), targets, rows, day, entry), day)

Carried(b, days, world, loaded, events, targets, entry) ==
  FoldLeft(LAMBDA c, day : IF c.refused THEN c
             ELSE Closing(c, day, RowsOn(world, loaded, day), events, targets, entry),
           b, InDayOrder(days))

\* The book is put back when any step refused it.
Kept(old, new) == [done |-> ~new.refused, book |-> IF new.refused THEN old ELSE new]

Opened(b, decision) ==
  IF b.last = Unmarked THEN RecordEquity([b EXCEPT !.last = decision], decision) ELSE b

AdvanceOver(b, targets, decision, entry, exit, world, loaded, events) ==
  Kept(b, IF Preflight(b, targets, world, events, decision, entry, exit)
          THEN Carried(Opened(b, decision), Sessions(world, decision, exit), world,
                       loaded, events, targets, entry)
          ELSE Refused(b))

\* advance_period: carry the book through one interval, or leave it as it was.
AdvanceTo(b, targets, decision, entry, exit, world) ==
  AdvanceOver(b, targets, decision, entry, exit, world,
              Reached(world, targets \cup Held(b), decision, exit),
              ConversionOrder(world, targets \cup Held(b), decision, exit))

Advance(b, picks, decision, entry, exit, world) ==
  IF \/ picks = {}
     \/ ~(decision < entry /\ entry <= exit)
     \/ b.last \notin {Unmarked, decision}
     \/ \E t, u \in picks : t # u /\ SecurityOf[t] = SecurityOf[u]
  THEN [done |-> FALSE, book |-> b]
  ELSE AdvanceTo(b, {SecurityOf[t] : t \in picks}, decision, entry, exit, world)

\* mark_through: value the book on every session up to a close, or leave it.
MarkOver(b, through, days, world, loaded, events) ==
  IF \/ through \notin days
     \/ \E k \in loaded, d \in days : Priced(world.rows[k][d]) /\ ~world.rows[k][d].verified
  THEN [done |-> FALSE, book |-> b]
  ELSE Kept(b, Carried(b, days, world, loaded, events, {}, Unmarked))

MarkThrough(b, through, world) ==
  MarkOver(b, through, Sessions(world, b.last, through), world,
           Reached(world, Held(b), b.last, through),
           ConversionOrder(world, Held(b), b.last, through))

\* from_state: what a stored book must satisfy to be read back.
Readable(b) ==
  /\ \A k \in Held(b) : /\ b.lots[k] # <<>>
                        /\ \A i \in DOMAIN b.lots[k] :
                             b.lots[k][i].shares > 0 /\ b.lots[k][i].basis > 0
  /\ Held(b) \subseteq DOMAIN b.mark
  /\ \A k \in DOMAIN b.mark : b.mark[k] > 0
  /\ b.curve # <<>> => b.last = Last(b.curve).day
=============================================================================
