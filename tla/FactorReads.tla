------------------------------ MODULE FactorReads ------------------------------
(***************************************************************************)
(* The point-in-time reads of stored facts behind the factors: the route   *)
(* from a ticker to an issuer, the history a decision sees                 *)
(* (src/src/aios/storage/store.py 5738-6320) and the trailing year built   *)
(* from it (src/src/aios/factors/common.py 238-342).  A stored row is      *)
(* [issuer, row, ...] under a key that starts with its ticker.             *)
(***************************************************************************)
EXTENDS FactParsers

CONSTANTS
  TickerHistory,  \* records [ticker, security, known, start, end]
  OwnerHistory    \* records [security, issuer, start, end]; None is no end

InForce(h, day) == h.start <= day /\ (h.end = None \/ h.end > day)

\* security_id_for_ticker; a ticker that no security has that day keeps the
\* ones that had it before.
NamedBy(ticker, day) == {h \in TickerHistory : h.ticker = ticker /\ h.known <= day /\ h.start <= day}
SecurityOf(ticker, day) ==
  LET active == {h \in NamedBy(ticker, day) : InForce(h, day)}
  IN {h.security : h \in IF active # {} THEN active ELSE NamedBy(ticker, day)}

\* issuer_id_for_security
OwnerOf(security, day) == {h.issuer : h \in {g \in OwnerHistory : g.security = security /\ InForce(g, day)}}
Reviewed(security) == \E h \in OwnerHistory : h.security = security

\* _fundamental_identity_filter: by issuer where one owns the security that
\* day, by ticker where no owner was ever reviewed, nothing in a gap between
\* owners and nothing when the identity is ambiguous.
OwnerOn(ticker, day) ==
  LET securities == SecurityOf(ticker, day)
      owners == UNION {OwnerOf(s, day) : s \in securities}
  IN IF Cardinality(securities) > 1 \/ Cardinality(owners) > 1 THEN "ambiguous"
     ELSE IF owners # {} THEN CHOOSE i \in owners : TRUE
     ELSE IF \E s \in securities : Reviewed(s) THEN "gap" ELSE "unreviewed"

Routed(rel, ticker, asof) ==
  LET owner == OwnerOn(ticker, asof) IN
  IF owner \in {"gap", "ambiguous"} THEN {}
  ELSE {rel[k].row : k \in {q \in DOMAIN rel :
          IF owner = "unreviewed" THEN q[1] = ticker ELSE rel[q].issuer = owner}}

Known(rel, ticker, asof) ==
  {r \in Routed(rel, ticker, asof) : r.filed <= asof /\ r.end <= r.filed}

\* The history of a decision through its cache (pit_factor_fundamentals): for
\* every period end the newest filing, then the ones whose single period is known.
History(rel, ticker, asof, metric) ==
  LET known == {r \in Known(rel, ticker, asof) : r.metric = metric}
  IN {r \in known : /\ r.quarter # None
                    /\ \A s \in known : s.end = r.end => s.filed <= r.filed}

\* The same outside one: among the rows whose single period is known, the
\* newest filing.  A filing that withholds it does not hide an older one.
FundamentalHistory(rel, ticker, asof, metric) ==
  LET known == {r \in Known(rel, ticker, asof) : r.metric = metric /\ r.quarter # None}
  IN {r \in known : \A s \in known : s.end = r.end => s.filed <= r.filed}

\* The last reported value of a metric.
Latest(rel, ticker, asof, metric) ==
  LET known == {r \in Known(rel, ticker, asof) : r.metric = metric}
  IN {r \in known : \A s \in known : \/ s.filed < r.filed
                                     \/ s.filed = r.filed /\ s.end <= r.end}

Annual(h) == h.period[1] = "FY"
Quarters == {"Q1", "Q2", "Q3", "Q4"}
Number(h) == CHOOSE n \in 1..4 : h.period[1] = <<"Q1", "Q2", "Q3", "Q4">>[n]
Quarterly(h) == h.period[1] \in Quarters /\ h.period[2] # None
Total(hs) == MapThenSumSet(LAMBDA h : h.quarter, hs)
Before(h, hs) == Cardinality({g \in hs : g.end < h.end})

\* _sum_consecutive_standalone_quarters: the last four, in fiscal order.
LastFour(hist) ==
  LET alone == {h \in hist : ~ Annual(h)}
  IN {h \in alone : Before(h, alone) >= Cardinality(alone) - 4}
FourQuarters(hist) ==
  LET four == LastFour(hist)
      Fiscal(h) == 4 * h.period[2] + Number(h)
  IN IF Cardinality({h \in hist : ~ Annual(h)}) >= 4 /\ (\A h \in four : Quarterly(h))
        /\ \A h, g \in four : Fiscal(h) - Fiscal(g) = Before(h, four) - Before(g, four)
     THEN Total(four) ELSE None

\* The last annual row, the quarters after it, and for each of these the rows
\* up to the annual one that its own year labels with the same quarter.
Annuals(hist) == {h \in hist : Annual(h)}
LastAnnual(hist) == CHOOSE h \in Annuals(hist) : \A g \in Annuals(hist) : g.end <= h.end
AfterAnnual(hist) == {h \in hist : h.end > LastAnnual(hist).end /\ ~ Annual(h)}
InOrder(hist) ==
  \A h \in AfterAnnual(hist) : /\ Quarterly(h) /\ h.period[2] = LastAnnual(hist).period[2] + 1
                              /\ Number(h) = Before(h, AfterAnnual(hist)) + 1
Prior(hist, h) ==
  {g \in hist : /\ g.end <= LastAnnual(hist).end /\ Quarterly(g)
                /\ g.period = <<h.period[1], LastAnnual(hist).period[2]>>}
PriorYear(hist) == UNION {Prior(hist, h) : h \in AfterAnnual(hist)}
RollForward(hist) ==
  LastAnnual(hist).quarter + Total(AfterAnnual(hist)) - Total(PriorYear(hist))

\* (a fault) A quarter of the year before may be missing.
TrailingYear_Fault(hist) ==
  IF hist = {} THEN None
  ELSE IF Annuals(hist) = {} THEN FourQuarters(hist)
  ELSE IF AfterAnnual(hist) = {} THEN LastAnnual(hist).quarter
  ELSE IF LastAnnual(hist).period[2] # None /\ Cardinality(AfterAnnual(hist)) <= 4 /\ InOrder(hist)
       THEN RollForward(hist) ELSE None

\* _ttm_sum_from_history: the last annual value, plus the quarters after it,
\* minus the same quarters of its own year; None when any label is missing,
\* out of order or doubled.
TrailingYear(hist) ==
  IF hist = {} THEN None
  ELSE IF Annuals(hist) = {} THEN FourQuarters(hist)
  ELSE IF AfterAnnual(hist) = {} THEN LastAnnual(hist).quarter
  ELSE IF LastAnnual(hist).period[2] # None /\ Cardinality(AfterAnnual(hist)) <= 4 /\ InOrder(hist)
          /\ \A h \in AfterAnnual(hist) : Cardinality(Prior(hist, h)) = 1
       THEN RollForward(hist) ELSE None
================================================================================
