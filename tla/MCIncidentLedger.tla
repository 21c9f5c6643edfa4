-------------------------- MODULE MCIncidentLedger --------------------------
(* Model values for checking IncidentLedger with TLC. *)
EXTENDS IncidentLedger, TLC

Symmetry == Permutations(Process)
=============================================================================
