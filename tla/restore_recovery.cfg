\* Crashes, failures, incomplete rollovers and an older installation's backup.
SPECIFICATION FairSpec
CONSTANTS
  Facts = {f1, f2}
  MaxBackups = 1
  MaxRestores = 1
  MaxAborts = 1
  MayCrash = TRUE
  MaxRollovers = 1
INVARIANT ReplayInv
PROPERTY RestoreSound
PROPERTY WayBack
CHECK_DEADLOCK FALSE
