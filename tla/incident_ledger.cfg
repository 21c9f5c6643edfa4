\* Two commands on the incident of either program; the clock is set back once.
SPECIFICATION Spec
CONSTANTS
  Process = {p1, p2}
  Observers = {"fundamentals", "scheduler"}
  MaxEvents = 3
  MaxCount = 2
  MaxClock = 1
  MaxUpheavals = 1
SYMMETRY Symmetry
INVARIANT LedgerInv
PROPERTY ProofStands
PROPERTY ReadPromise
CHECK_DEADLOCK FALSE
