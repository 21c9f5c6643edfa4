------------------------- MODULE MCLocalStateUpgrade -------------------------
\* Model values for LocalStateUpgrade: the attempts are interchangeable.
EXTENDS LocalStateUpgrade, TLC

Symmetry == Permutations(Attempts)
==============================================================================
