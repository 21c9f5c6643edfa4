-------------------------- MODULE MCForwardRollover --------------------------
(* Model values for checking ForwardRollover with TLC. *)
EXTENDS ForwardRollover, TLC

Symmetry == Permutations(Process)

\* Every step of an activation or its rollback, but the one after the verdict.
EarlySteps == (ActivationStep \ {"return"}) \cup RollbackStep \cup {"remove"}
AllSteps == EarlySteps \cup {"return"}
=============================================================================
