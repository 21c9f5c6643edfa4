--------------------------- MODULE ReviewedClosure ---------------------------
(***************************************************************************)
(* What the incident ledger promises about one incident: it blocks from    *)
(* each occurrence on, and only somebody who looked after the latest       *)
(* occurrence clears it.                                                   *)
(***************************************************************************)
EXTENDS Naturals

CONSTANT Process

VARIABLES
  occurrences,  \* how often the failure was recorded
  blocking,     \* whether it stops unattended operation
  seen          \* seen[p]: the occurrences p had before it when it looked

closureVars == <<occurrences, blocking, seen>>

ClosureInit ==
  /\ \/ occurrences = 0 /\ blocking = FALSE
     \/ occurrences = 1 /\ blocking = TRUE
  /\ seen = [p \in Process |-> 0]

Occur ==
  /\ occurrences' = occurrences + 1
  /\ blocking' = TRUE
  /\ \E p \in Process : seen' = seen \/ seen' = [seen EXCEPT ![p] = 0]

Look(p) ==
  /\ seen' = [seen EXCEPT ![p] = occurrences]
  /\ UNCHANGED <<occurrences, blocking>>

Forget(p) ==
  /\ seen' = [seen EXCEPT ![p] = 0]
  /\ UNCHANGED <<occurrences, blocking>>

Clear(p) ==
  /\ seen[p] = occurrences
  /\ blocking' = FALSE
  /\ seen' = [seen EXCEPT ![p] = 0]
  /\ UNCHANGED occurrences

ClosureNext == Occur \/ \E p \in Process : Look(p) \/ Forget(p) \/ Clear(p)

ClosureSpec == ClosureInit /\ [][ClosureNext]_closureVars
=============================================================================
