\* Two workers, an alert and its recovery, two attempts, the clock set back once.
SPECIFICATION FairSpec
CONSTANTS
  Incident = {i1}
  Severities = {1}
  Worker = {w1, w2}
  Config = {c1}
  MaxAttempts = 2
  LeaseTicks = 1
  RetryBase = 1
  RetryCap = 1
  QuitAnswers = {"closing"}
  MaxStepBack = 1
  MaxMessages = 2
  MaxActivations = 1
  MaxBackSteps = 1
INVARIANT OutboxInv
INVARIANT NeverSentTwice
INVARIANT ExclusiveWorker
INVARIANT RecoveryAfterAlert
PROPERTY SettledForGood
PROPERTY PromiseSpec
PROPERTY QueueDrains
CHECK_DEADLOCK FALSE
