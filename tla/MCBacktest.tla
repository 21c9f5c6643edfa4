----------------------------- MODULE MCBacktest -----------------------------
(* Three periods of three days (one of them may be closed), two selectable *)
(* securities, the shares a conversion leads to, and an index.             *)
EXTENDS Backtest

MCSecurity == <<"acme", "bolt", "conv", "spy">>
MCTicker == {"A", "A2", "B", "C", "S"}
MCUnmarked == -1
MCSecurityOf == [t \in MCTicker |->
   CASE t \in {"A", "A2"} -> "acme" [] t = "B" -> "bolt"
     [] t = "C" -> "conv" [] OTHER -> "spy"]
MCDecision == <<0, 3, 6, 9>>
MCTerms == [bps |-> 100, fee |-> 3, short |-> 50, long |-> 20, dividend |-> 30]
MCPaperTerms == [bps |-> 10, fee |-> 0, short |-> 0, long |-> 0, dividend |-> 0]

DayRange == 1..9

At(price) == [Missing EXCEPT !.close = price]

\* Prices that rise, fall and recover, so that later rebalances sell part of a
\* lot at a gain, at a loss, and short or long term.
Path(k) ==
  [d \in DayRange |->
     CASE k = "acme" -> At(IF d <= 2 THEN 10 ELSE IF d <= 5 THEN 20 ELSE 15)
       [] k = "bolt" -> At(IF d <= 5 THEN 20 ELSE 25)
       [] OTHER -> At(10)]

Plain == [open |-> DayRange, valid |-> TRUE, conversions |-> {},
          rows |-> [k \in Range(MCSecurity) |-> Path(k)]]

Set(w, k, d, row) == [w EXCEPT !.rows[k][d] = row]

Halved(w, k, from, adjusted) ==
  [w EXCEPT !.rows[k] = [d \in DayRange |->
     [w.rows[k][d] EXCEPT !.close = IF d >= from THEN @ \div 2 ELSE @,
                          !.split = IF d = from THEN 2 ELSE 1,
                          !.adjusted = adjusted]]]

Converts(from, to, day) == [from |-> from, to |-> to, day |-> day, ratio |-> 2]

Holiday(w, days) ==
  [w EXCEPT !.open = @ \ days,
            !.rows = [k \in Range(MCSecurity) |->
                        [d \in DayRange |-> IF d \in days THEN Missing ELSE w.rows[k][d]]]]

MCWorld ==
  { Plain,
    [Plain EXCEPT !.valid = FALSE],
    Holiday(Plain, {1, 5}),
    Set(Plain, "acme", 2, [At(10) EXCEPT !.dividend = 1]),
    Set(Set(Plain, "bolt", 4, Missing), "acme", 5, [At(20) EXCEPT !.dividend = 2]),
    Set(Plain, "bolt", 6, Missing),
    Set(Plain, "acme", 8, [At(15) EXCEPT !.verified = FALSE]),
    Set(Plain, "spy", 4, Missing),
    Halved(Plain, "acme", 5, FALSE),
    Halved(Plain, "acme", 2, TRUE),
    [Plain EXCEPT !.conversions = {Converts("bolt", "conv", 2)}],
    [Plain EXCEPT !.conversions = {Converts("acme", "bolt", 5)}],
    Holiday([Plain EXCEPT !.conversions = {Converts("bolt", "conv", 5)}], {5}) }

\* A chain of two conversions on one session, the second one first in key order.
MCChain ==
  { [Plain EXCEPT !.conversions =
       {Converts("conv", "acme", 5), Converts("acme", "bolt", 5)}],
    [Plain EXCEPT !.conversions = {Converts("bolt", "acme", 5),
                                   Converts("acme", "conv", 5)}] }

Row(q, v) == [quality |-> q, value |-> v, fresh |-> TRUE, fundamentals |-> TRUE]
Stale(q, v) == [Row(q, v) EXCEPT !.fresh = FALSE]

MCBoard ==
  { [t \in MCTicker |-> CASE t = "A" -> Row(3, 1) [] t = "B" -> Row(1, 3)
                         [] t = "C" -> Row(2, 2) [] OTHER -> Stale(2, 2)],
    [t \in MCTicker |-> CASE t = "A2" -> Row(0, 3) [] t = "C" -> Row(1, 1) [] OTHER -> Row(2, 3)],
    [t \in MCTicker |-> IF t \in {"A", "A2"} THEN Row(3, 3) ELSE Row(1, 1)],
    [t \in MCTicker |-> IF t = "B" THEN Row(3, 1) ELSE Stale(1, 1)] }
=============================================================================
