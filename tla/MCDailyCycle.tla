------------------------------ MODULE MCDailyCycle ------------------------------
(***************************************************************************)
(* Two members: m1 splits on session 3, and m2 split on session 0 without  *)
(* a complete review.  The benchmark starts with a row from before split   *)
(* factors were stored.  One mandatory series, with a revision, and one    *)
(* yield.                                                                  *)
(***************************************************************************)
EXTENDS DailyCycle

MCSplits == [l \in Lines |-> IF l = "m1" THEN {3} ELSE IF l = "m2" THEN {0} ELSE {}]
MCListed == [m \in Members |-> 0]
MCOrder == <<"m1", "m2">>
MCHistory == [l \in Lines |-> [d \in 0..1 |->
  IF d = 0 /\ l = Spy
  THEN [basis |-> 0, factor |-> Unknown, adjusted |-> TRUE, safe |-> FALSE]
  ELSE IF d = 0 /\ l = "m2" THEN ActionRow(l, 0, 1) ELSE YahooRow(l, d, 1, 1)]]
MCRepairWindows == {<<0, 3>>}
Vintage(obs, rel) == [obs |-> obs, rel |-> rel]
MCVintages == [s \in Series |->
  IF s = "G" THEN {Vintage(0, 0), Vintage(1, 1), Vintage(1, 2), Vintage(0, 3), Vintage(2, 3)}
  ELSE {Vintage(0, 0), Vintage(1, 2), Vintage(2, 3)}]
================================================================================
