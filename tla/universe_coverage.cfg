\* A governed change alone or with another one, at all relative dates.
SPECIFICATION FairCoverageSpec
CONSTANTS
  ta = ta  tb = tb  tc = tc  te = te  tf = tf  rg = rg  rh = rh
  Ticker = {ta, tb, tc, te, tf}
  Baseline = {ta, tb, tc}
  Schedules <- Courses
  Governed = rg
  StaleLimit = 1
  ArchiveReach = 6
  MaxDay = 5
  MaxRebuilds = 1
  LateRebuilds = FALSE
INVARIANT PointInTime
INVARIANT StoreInv
PROPERTY AcceptedNeverBlocks
CHECK_DEADLOCK FALSE
