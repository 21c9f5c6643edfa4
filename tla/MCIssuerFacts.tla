----------------------------- MODULE MCIssuerFacts -----------------------------
(***************************************************************************)
(* Two issuers under one ticker, as after a reincorporation.  A quarter is *)
(* 10 days and a fiscal year 40; OLD reports quarterly and NEW, a refiner, *)
(* reports revenue only gross of excise taxes.                             *)
(***************************************************************************)
EXTENDS IssuerFacts

Row(tax, concept, unit, accn, form, fp, fy, start, end, filed, val) ==
  [tax |-> tax, concept |-> concept, unit |-> unit, accn |-> accn, form |-> form,
   fp |-> fp, fy |-> fy, start |-> start, end |-> end, filed |-> filed, val |-> val]
Usd(concept, accn, form, fp, fy, start, end, val) ==
  Row("us-gaap", concept, "USD", accn, form, fp, fy, start, end, end + 2, val)
Shares(tax, concept, accn, end, val) ==
  Row(tax, concept, "shares", accn, "10-K", "FY", 1, None, end, end + 2, val)

\* The first fiscal year: two interim reports, then the annual one, with a
\* second concept that says something else.
FirstYear == <<
  Usd("Revenues", "a1", "10-Q", "Q1", 1, 0, 10, 22),
  Usd("Revenues", "a2", "10-Q", "Q2", 1, 0, 20, 46),
  Usd("Revenues", "a2", "10-Q", "Q2", 1, 10, 20, 24),
  Usd("Revenues", "a4", "10-K", "FY", 1, 0, 40, 100),
  Shares("dei", "EntityShares", "a4", 40, 7)>>
SecondYear == FirstYear \o <<
  Usd("Revenues", "a5", "10-Q", "Q1", 2, 40, 50, 30)>>
Contradicted == SecondYear \o <<
  Usd("Revenues", "a6", "10-Q", "Q2", 2, 40, 60, 62),
  Usd("Revenues", "a6", "10-Q", "Q2", 2, 50, 60, 32),
  Usd("ContractRevenue", "a1", "10-Q", "Q1", 1, 0, 10, 21)>>
\* The second report is gone, one filing gives two share counts, and the others
\* repeat the same period of the year before, as the SEC gives it: under the
\* fiscal year and period of the report that contains it.
Beside(row, val) == [row EXCEPT !.start = @ - 40, !.end = @ - 40, !.val = val]
Shrunk == <<
  FirstYear[1], Beside(FirstYear[1], 20), FirstYear[4], Beside(FirstYear[4], 90), FirstYear[5],
  SecondYear[6], Beside(SecondYear[6], 22),
  Shares("us-gaap", "CommonShares", "a4", 39, 9), Shares("us-gaap", "CommonShares", "a4", 39, 8)>>

\* The successor repeats the share count of the annual report.
Refiner == <<
  Usd("AssessedTaxRevenue", "b4", "10-K", "FY", 1, 0, 40, 110),
  Usd("ExciseTax", "b4", "10-K", "FY", 1, 0, 40, 10),
  Shares("us-gaap", "CommonShares", "b4", 39, 9)>>
Successor == Refiner \o <<Shares("dei", "EntityShares", "b4", 40, 7)>>

MCTicker == [i \in Issuers |-> "T"]
MCCohort == [i \in Issuers |-> IF i = "OLD" THEN "base" ELSE "valero"]
MCSecurity == [i \in Issuers |-> IF i = "OLD" THEN "S" ELSE NoSecurity]
MCFeed == [i \in Issuers |-> IF i = "OLD" THEN <<FirstYear, Contradicted, Shrunk>>
                             ELSE <<Successor>>]
MCMaxRuns == [i \in Issuers |-> IF i = "OLD" THEN 2 ELSE 1]
MCTruth == [i \in Issuers |->
  [e \in {-30, 0, 10, 20, 30, 40, 50, 60} |->
     CASE e = -30 -> 20 [] e = 0 -> 25 [] e = 10 -> 22 [] e = 20 -> 24 [] e = 30 -> 26 [] e = 40 -> 28
       [] e = 50 -> 30 [] OTHER -> 32]]
MCTickerHistory == {[ticker |-> "T", security |-> "S", known |-> 13, start |-> 13, end |-> None]}
MCOwnerHistory == {[security |-> "S", issuer |-> "OLD", start |-> 13, end |-> 63],
                   [security |-> "S", issuer |-> "NEW", start |-> 66, end |-> None]}

LegacyRow(issuer, end, filed, metric) ==
  [issuer |-> issuer, security |-> "S", run |-> Run("none", 0), snapshot |-> 0, parser |-> "none",
   row |-> [end |-> end, filed |-> filed, metric |-> metric, period |-> <<"FY", 1>>, value |-> 5,
            quarter |-> 5, unit |-> "USD", locator |-> {}]]
MCLegacy ==
  [k \in {<<"T", 40, 42, "ebitda">>, <<"T", 40, 39, "revenue">>, <<"T", 40, 42, "shares_out">>} |->
     LegacyRow(NoIssuer, k[2], k[3], k[4])]

\* What the parsers make of these responses is true; their labels are not all
\* those of their periods.
ASSUME MCTrueFigures == TrueFigures
================================================================================
