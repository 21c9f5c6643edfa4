\* Two attempts, two processes, torn writes, three faults; the operator repeats recovery.
SPECIFICATION FairSpec
CONSTANTS
  Attempt = {1, 2}
  Process = {p1, p2}
  TornWrites = TRUE
  FailingSteps <- EarlySteps
  PatientOperator = TRUE
  PaperUse = TRUE
  MaxFaults = 3
INVARIANT RolloverInv
PROPERTY AuthorityPromise
PROPERTY RecoveryCompletes
CHECK_DEADLOCK FALSE
