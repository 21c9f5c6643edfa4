--------------------------- MODULE AuthoritySwitch ---------------------------
(***************************************************************************)
(* What a governed rollover promises about the one active trial: authority *)
(* moves from the predecessor to a successor for the attempt that is under *)
(* way, may move back while that attempt is undecided, and the verdict of  *)
(* an attempt is true when it is given and final.                          *)
(***************************************************************************)
EXTENDS Naturals

CONSTANTS
  Attempt,      \* attempts; each prepares a successor of its own
  Predecessor   \* the trial active before the first attempt, no attempt itself

VARIABLES
  authority,  \* whose trial is active: Predecessor, or the attempt that made it
  verdict     \* verdict[a]: what is recorded about attempt a

switchVars == <<authority, verdict>>

SwitchInit ==
  /\ authority = Predecessor
  /\ verdict = [a \in Attempt |-> "none"]

\* An attempt starts only when no other is undecided and nothing has switched.
Open(a) ==
  /\ verdict[a] = "none" /\ authority = Predecessor
  /\ \A b \in Attempt : verdict[b] # "open"
  /\ verdict' = [verdict EXCEPT ![a] = "open"]
  /\ UNCHANGED authority

Switch(a) ==
  /\ verdict[a] = "open" /\ authority = Predecessor
  /\ authority' = a
  /\ UNCHANGED verdict

SwitchBack(a) ==
  /\ verdict[a] = "open" /\ authority = a
  /\ authority' = Predecessor
  /\ UNCHANGED verdict

Decide(a) ==
  /\ verdict[a] = "open"
  /\ verdict' = [verdict EXCEPT ![a] = IF authority = a THEN "switched" ELSE "kept"]
  /\ UNCHANGED authority

SwitchNext == \E a \in Attempt : Open(a) \/ Switch(a) \/ SwitchBack(a) \/ Decide(a)

SwitchSpec == SwitchInit /\ [][SwitchNext]_switchVars
=============================================================================
