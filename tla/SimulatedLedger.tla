--------------------------- MODULE SimulatedLedger ---------------------------
(***************************************************************************)
(* What the paper account promises about its simulated fills: they are     *)
(* appended one by one, each for the next decision date, each decided on   *)
(* the account as it was just before, and nothing recorded is lost.        *)
(***************************************************************************)
EXTENDS Naturals, Sequences

CONSTANT Date

VARIABLES
  version,  \* changes of the account so far
  fills     \* [date, basis]: the decision date, the version decided on

ledgerVars == <<version, fills>>

LedgerInit == version = 0 /\ fills = <<>>

Mark == version' = version + 1 /\ UNCHANGED fills

Fill(d) ==
  /\ \A i \in DOMAIN fills : fills[i].date < d
  /\ fills' = Append(fills, [date |-> d, basis |-> version])
  /\ version' = version + 1

LedgerNext == Mark \/ \E d \in Date : Fill(d)

LedgerSpec == LedgerInit /\ [][LedgerNext]_ledgerVars
=============================================================================
