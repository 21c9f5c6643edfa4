\* Two attempts, crashes between and inside steps, other commands in between.
SPECIFICATION FairSpec
CONSTANTS
  Attempts = {a1, a2}
  MaxAborts = 2
  MaxAlerts = 2
  MaxIngests = 1
  TornMigration = TRUE
  TornPublish = TRUE
INVARIANT UpgradeInv
PROPERTY RecoveryResumes
CHECK_DEADLOCK FALSE
