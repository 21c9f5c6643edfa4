---------------------------- MODULE MCAnomalyCases ----------------------------
(* Small worlds for the seven rules, over two days.                      *)
EXTENDS AnomalyCases

AllRules == {"sec", "price", "coverage", "mapping", "shares", "filings", "factor"}

(* SEC: an issuer without facts, before or after its first periodic form,  *)
(* that took over from another issuer; facts known at once or only later.  *)
Facts(rows, filed, stage, heir) == [rows |-> rows, filed |-> filed, stage |-> stage, heir |-> heir]
NoFacts == Facts(0, 1, "registration", TRUE)

(* Prices of two sessions.                                                 *)
Bar(close, action) == [close |-> close, action |-> action, complete |-> TRUE]
Bars(close, action) == <<Bar(8, FALSE), Bar(close, action)>>

Coverage(filed) == [filed |-> filed, priced |-> 9, identified |-> 9]
Mapped(security, symbol, from, to) ==
    [security |-> security, provider |-> "yahoo", symbol |-> symbol, from |-> from, to |-> to]
Shares(period, filed, value) == [ticker |-> "T", period |-> period, filed |-> filed, value |-> value]
Filed(value) == [metric |-> "revenue", period |-> 1, filed |-> 1, value |-> value]

AtFirst(r) ==
    CASE r = "sec"      -> NoFacts
      [] r = "price"    -> Bars(16, FALSE)
      [] r = "coverage" -> Coverage(9)
      [] r = "mapping"  -> {Mapped("S", "s", 1, 0)}
      [] r = "shares"   -> {Shares(1, 1, 10)}
      [] r = "filings"  -> {Filed(1)}
      [] r = "factor"   -> [t \in {"T"} |-> 10]
Worlds == [r \in AllRules |->
    [data |-> AtFirst(r), kept |-> <<[at |-> 1, data |-> AtFirst(r), intact |-> TRUE]>>]]

Given == [r \in AllRules |->
    CASE r = "sec"      -> {Facts(1, 1, "periodic", TRUE), Facts(1, 2, "registration", TRUE),
                            Facts(0, 1, "periodic", TRUE)}
      [] r = "price"    -> {Bars(9, FALSE), Bars(16, TRUE), <<Bar(4, FALSE), Bar(9, FALSE)>>}
      [] r = "coverage" -> {Coverage(6), Coverage(3)}
      [] r = "mapping"  -> {{Mapped("S", "s", 1, 0), Mapped("S", "t", 2, 0)},
                            {Mapped("S", "s", 1, 3), Mapped("R", "s", 2, 0)}}
      [] r = "shares"   -> {{Shares(1, 1, 10), Shares(2, 2, 14)}, {Shares(1, 1, 10), Shares(2, 2, 0)},
                            {Shares(1, 1, 10), Shares(1, 1, 20), Shares(2, 2, 0), Shares(2, 2, -1)}}
      [] r = "filings"  -> {{Filed(1), Filed(2)}, {Filed(1), Filed(2), Filed(3)}}
      [] r = "factor"   -> {[t \in {"T"} |-> 60], [t \in {"T"} |-> -1]}]

ByHand == [r \in AllRules |->
    CASE r = "sec"   -> {Facts(1, 1, "periodic", TRUE)}
      [] r = "price" -> {Bars(9, FALSE), Bars(16, FALSE)}
      [] OTHER       -> {}]
=============================================================================
