--------------------------- MODULE MCBackupRestore ---------------------------
\* Model values for BackupRestore: the facts are interchangeable.
EXTENDS BackupRestore, TLC

Symmetry == Permutations(Facts)
==============================================================================
